---- MODULE Spec2Model ----
(***************************************************************************)
(* Resume Analysis Engine (backend/services/resume_analyzer.py).           *)
(*                                                                         *)
(* A string is a sequence of one-character strings, so that lower(),       *)
(* endswith(), substring search and the regular expressions of the code    *)
(* are computed and not assumed.  The tokenizer, stopword list and         *)
(* lemmatizer of nltk, the document parsers and the Redis cache are        *)
(* libraries outside the repository: they are given by their documented    *)
(* behaviour on the texts of the model.  Scores are held in hundredths     *)
(* (ats_score * 100), so 100.0 is 10000.  A Python list is a sequence      *)
(* where the code reads its length or its order; the lists built by        *)
(* list(set(...)) are held as the set they enumerate.                      *)
(***************************************************************************)
EXTENDS Integers, Sequences, FiniteSets, TLC

(***************************************************************************)
(* Bounds of the model.                                                    *)
(***************************************************************************)
MaxTicks == 2
MaxListLen == 3
BigJobLen == 20000

(***************************************************************************)
(* Program constants.                                                      *)
(***************************************************************************)
TTL == 3600
MinTokenLen == 2
MaxListedMissing == 5
FewKeywords == 20

NoYears == -1

Min(a, b) == IF a <= b THEN a ELSE b

ToSet(s) == {s[i] : i \in 1..Len(s)}

\* no element occurs twice
NoDup(s) == Cardinality(ToSet(s)) = Len(s)

(***************************************************************************)
(* Characters and str methods.                                             *)
(***************************************************************************)
UpperToLower ==
    ("A" :> "a") @@ ("B" :> "b") @@ ("C" :> "c") @@ ("D" :> "d") @@ ("E" :> "e") @@
    ("F" :> "f") @@ ("G" :> "g") @@ ("H" :> "h") @@ ("I" :> "i") @@ ("J" :> "j") @@
    ("K" :> "k") @@ ("L" :> "l") @@ ("M" :> "m") @@ ("N" :> "n") @@ ("O" :> "o") @@
    ("P" :> "p") @@ ("Q" :> "q") @@ ("R" :> "r") @@ ("S" :> "s") @@ ("T" :> "t") @@
    ("U" :> "u") @@ ("V" :> "v") @@ ("W" :> "w") @@ ("X" :> "x") @@ ("Y" :> "y") @@
    ("Z" :> "z")

LowerLetters == {UpperToLower[c] : c \in DOMAIN UpperToLower}

Digits == {"0", "1", "2", "3", "4", "5", "6", "7", "8", "9"}

DigitValue ==
    ("0" :> 0) @@ ("1" :> 1) @@ ("2" :> 2) @@ ("3" :> 3) @@ ("4" :> 4) @@
    ("5" :> 5) @@ ("6" :> 6) @@ ("7" :> 7) @@ ("8" :> 8) @@ ("9" :> 9)

IsSpace(c) == c \in {" ", "\n", "\t"}

IsWordChar(c) == c \in LowerLetters \cup DOMAIN UpperToLower \cup Digits \cup {"_"}

lower_char(c) == IF c \in DOMAIN UpperToLower THEN UpperToLower[c] ELSE c

lower(s) == [i \in 1..Len(s) |-> lower_char(s[i])]

StartsAt(s, i, w) ==
    /\ i >= 1
    /\ i + Len(w) - 1 <= Len(s)
    /\ \A k \in 1..Len(w) : s[i + k - 1] = w[k]

endswith(s, suffix) == StartsAt(s, Len(s) - Len(suffix) + 1, suffix)

\* needle in hay
Contains(hay, needle) == \E i \in 1..(Len(hay) + 1) : StartsAt(hay, i, needle)

RECURSIVE strip(_)
strip(s) ==
    IF s = <<>> THEN s
    ELSE IF IsSpace(Head(s)) THEN strip(Tail(s))
    ELSE IF IsSpace(s[Len(s)]) THEN strip(SubSeq(s, 1, Len(s) - 1))
    ELSE s

\* The first index at or after i that holds no whitespace (Len(s) + 1 if none).
RECURSIVE SkipSpaces(_, _)
SkipSpaces(s, i) ==
    IF i <= Len(s) /\ IsSpace(s[i]) THEN SkipSpaces(s, i + 1) ELSE i

\* The first index at or after i that holds no digit.
RECURSIVE SkipDigits(_, _)
SkipDigits(s, i) ==
    IF i <= Len(s) /\ s[i] \in Digits THEN SkipDigits(s, i + 1) ELSE i

\* int() of a run of digits.
RECURSIVE int(_)
int(ds) ==
    IF ds = <<>> THEN 0
    ELSE 10 * int(SubSeq(ds, 1, Len(ds) - 1)) + DigitValue[ds[Len(ds)]]

(***************************************************************************)
(* ResumeAnalyzer.__init__: the vocabulary.                                *)
(***************************************************************************)
technical_skills ==
    << <<"p", "y", "t", "h", "o", "n">>, <<"j", "a", "v", "a">>, <<"j", "a", "v", "a", "s", "c", "r", "i", "p", "t">>, <<"r", "e", "a", "c", "t">>, <<"a", "n", "g", "u", "l", "a", "r">>, <<"v", "u", "e">>,
       <<"n", "o", "d", "e", ".", "j", "s">>, <<"s", "q", "l">>, <<"m", "o", "n", "g", "o", "d", "b">>, <<"a", "w", "s">>, <<"a", "z", "u", "r", "e">>, <<"d", "o", "c", "k", "e", "r">>,
       <<"k", "u", "b", "e", "r", "n", "e", "t", "e", "s">>, <<"g", "i", "t">>, <<"a", "g", "i", "l", "e">>, <<"s", "c", "r", "u", "m">>, <<"m", "a", "c", "h", "i", "n", "e", " ", "l", "e", "a", "r", "n", "i", "n", "g">>,
       <<"d", "a", "t", "a", " ", "a", "n", "a", "l", "y", "s", "i", "s">>, <<"s", "t", "a", "t", "i", "s", "t", "i", "c", "s">>, <<"e", "x", "c", "e", "l">>, <<"t", "a", "b", "l", "e", "a", "u">>, <<"p", "o", "w", "e", "r", " ", "b", "i">>,
       <<"r">>, <<"m", "a", "t", "l", "a", "b">>, <<"t", "e", "n", "s", "o", "r", "f", "l", "o", "w">>, <<"p", "y", "t", "o", "r", "c", "h">>, <<"s", "c", "i", "k", "i", "t", "-", "l", "e", "a", "r", "n">>,
       <<"p", "a", "n", "d", "a", "s">>, <<"n", "u", "m", "p", "y">>, <<"h", "t", "m", "l">>, <<"c", "s", "s">>, <<"b", "o", "o", "t", "s", "t", "r", "a", "p">>, <<"j", "q", "u", "e", "r", "y">>,
       <<"t", "y", "p", "e", "s", "c", "r", "i", "p", "t">>, <<"g", "r", "a", "p", "h", "q", "l">>, <<"r", "e", "s", "t", " ", "a", "p", "i">>, <<"m", "i", "c", "r", "o", "s", "e", "r", "v", "i", "c", "e", "s">>, <<"c", "i", "/", "c", "d">>,
       <<"j", "e", "n", "k", "i", "n", "s">>, <<"g", "i", "t", "l", "a", "b">> >>

soft_skills ==
    << <<"l", "e", "a", "d", "e", "r", "s", "h", "i", "p">>, <<"c", "o", "m", "m", "u", "n", "i", "c", "a", "t", "i", "o", "n">>, <<"t", "e", "a", "m", "w", "o", "r", "k">>, <<"p", "r", "o", "b", "l", "e", "m", " ", "s", "o", "l", "v", "i", "n", "g">>,
       <<"c", "r", "i", "t", "i", "c", "a", "l", " ", "t", "h", "i", "n", "k", "i", "n", "g">>, <<"t", "i", "m", "e", " ", "m", "a", "n", "a", "g", "e", "m", "e", "n", "t">>, <<"p", "r", "o", "j", "e", "c", "t", " ", "m", "a", "n", "a", "g", "e", "m", "e", "n", "t">>,
       <<"c", "u", "s", "t", "o", "m", "e", "r", " ", "s", "e", "r", "v", "i", "c", "e">>, <<"c", "o", "l", "l", "a", "b", "o", "r", "a", "t", "i", "o", "n">>, <<"a", "d", "a", "p", "t", "a", "b", "i", "l", "i", "t", "y">>, <<"c", "r", "e", "a", "t", "i", "v", "i", "t", "y">>,
       <<"a", "n", "a", "l", "y", "t", "i", "c", "a", "l">>, <<"d", "e", "t", "a", "i", "l", "-", "o", "r", "i", "e", "n", "t", "e", "d">>, <<"m", "u", "l", "t", "i", "t", "a", "s", "k", "i", "n", "g">> >>

certifications ==
    << <<"p", "m", "p">>, <<"s", "c", "r", "u", "m", " ", "m", "a", "s", "t", "e", "r">>, <<"a", "w", "s", " ", "c", "e", "r", "t", "i", "f", "i", "e", "d">>, <<"a", "z", "u", "r", "e", " ", "c", "e", "r", "t", "i", "f", "i", "e", "d">>,
       <<"g", "o", "o", "g", "l", "e", " ", "c", "l", "o", "u", "d">>, <<"c", "i", "s", "c", "o">>, <<"c", "o", "m", "p", "t", "i", "a">>, <<"m", "i", "c", "r", "o", "s", "o", "f", "t", " ", "c", "e", "r", "t", "i", "f", "i", "e", "d">>,
       <<"o", "r", "a", "c", "l", "e", " ", "c", "e", "r", "t", "i", "f", "i", "e", "d">>, <<"s", "a", "l", "e", "s", "f", "o", "r", "c", "e">> >>

education ==
    << <<"b", "a", "c", "h", "e", "l", "o", "r">>, <<"m", "a", "s", "t", "e", "r">>, <<"p", "h", "d">>, <<"d", "e", "g", "r", "e", "e">>, <<"u", "n", "i", "v", "e", "r", "s", "i", "t", "y">>,
       <<"c", "o", "l", "l", "e", "g", "e">>, <<"g", "p", "a">> >>

ats_keywords ==
    [technical_skills |-> technical_skills, soft_skills |-> soft_skills,
     certifications |-> certifications, education |-> education]

(***************************************************************************)
(* ResumeAnalyzer.clean_text: strip, collapse each run of whitespace to    *)
(* one space, blank every character outside [\w\s.,!?-], lower-case.       *)
(***************************************************************************)
RECURSIVE CollapseSpaces(_)
CollapseSpaces(s) ==
    IF s = <<>> THEN s
    ELSE IF IsSpace(Head(s))
         THEN <<" ">> \o CollapseSpaces(SubSeq(s, SkipSpaces(s, 1), Len(s)))
         ELSE <<Head(s)>> \o CollapseSpaces(Tail(s))

KeptChar(c) == IsWordChar(c) \/ IsSpace(c) \/ c \in {".", ",", "!", "?", "-"}

BlankSpecials(s) == [i \in 1..Len(s) |-> IF KeptChar(s[i]) THEN s[i] ELSE " "]

clean_text(text) == lower(BlankSpecials(CollapseSpaces(strip(text))))

(***************************************************************************)
(* nltk.word_tokenize on cleaned text: tokens are the maximal runs of      *)
(* characters other than whitespace; each of , ! ? is a token of its own,  *)
(* and so is a period that ends a run (a period inside a run stays).       *)
(***************************************************************************)
IsSeparator(c) == c \in {",", "!", "?"}

EndsRun(s, i) == i = Len(s) \/ IsSpace(s[i + 1])

RECURSIVE Tokens(_, _, _)
Tokens(s, i, cur) ==
    LET flush == IF cur = <<>> THEN <<>> ELSE <<cur>>
    IN  IF i > Len(s) THEN flush
        ELSE IF IsSpace(s[i]) THEN flush \o Tokens(s, i + 1, <<>>)
        ELSE IF IsSeparator(s[i]) \/ (s[i] = "." /\ EndsRun(s, i))
             THEN flush \o <<<<s[i]>>>> \o Tokens(s, i + 1, <<>>)
        ELSE Tokens(s, i + 1, Append(cur, s[i]))

word_tokenize(s) == Tokens(s, 1, <<>>)

(***************************************************************************)
(* stopwords.words('english') (the entries the texts of the model can      *)
(* meet) and WordNetLemmatizer.lemmatize (the shortest WordNet base form,  *)
(* the word itself when WordNet has none).                                 *)
(***************************************************************************)
stop_words ==
    { <<"i">>, <<"m", "e">>, <<"m", "y">>, <<"w", "e">>, <<"o", "u", "r">>, <<"y", "o", "u">>, <<"y", "o", "u", "r">>, <<"h", "e">>, <<"s", "h", "e">>,
      <<"i", "t">>, <<"i", "t", "s">>, <<"t", "h", "e", "y">>, <<"t", "h", "e", "m">>, <<"w", "h", "a", "t">>, <<"w", "h", "i", "c", "h">>, <<"w", "h", "o">>, <<"t", "h", "i", "s">>,
      <<"t", "h", "a", "t">>, <<"t", "h", "e", "s", "e">>, <<"t", "h", "o", "s", "e">>, <<"a", "m">>, <<"i", "s">>, <<"a", "r", "e">>, <<"w", "a", "s">>, <<"w", "e", "r", "e">>,
      <<"b", "e">>, <<"b", "e", "e", "n">>, <<"h", "a", "v", "e">>, <<"h", "a", "s">>, <<"h", "a", "d">>, <<"d", "o">>, <<"d", "o", "e", "s">>, <<"d", "i", "d">>,
      <<"a">>, <<"a", "n">>, <<"t", "h", "e">>, <<"a", "n", "d">>, <<"b", "u", "t">>, <<"i", "f">>, <<"o", "r">>, <<"b", "e", "c", "a", "u", "s", "e">>,
      <<"a", "s">>, <<"u", "n", "t", "i", "l">>, <<"w", "h", "i", "l", "e">>, <<"o", "f">>, <<"a", "t">>, <<"b", "y">>, <<"f", "o", "r">>, <<"w", "i", "t", "h">>,
      <<"a", "b", "o", "u", "t">>, <<"b", "e", "t", "w", "e", "e", "n">>, <<"i", "n", "t", "o">>, <<"t", "h", "r", "o", "u", "g", "h">>, <<"t", "o">>, <<"f", "r", "o", "m">>, <<"i", "n">>,
      <<"u", "p">>, <<"d", "o", "w", "n">>,
      <<"o", "u", "t">>, <<"o", "n">>, <<"o", "f", "f">>, <<"o", "v", "e", "r">>, <<"u", "n", "d", "e", "r">>, <<"t", "h", "e", "n">>, <<"h", "e", "r", "e">>,
      <<"t", "h", "e", "r", "e">>, <<"w", "h", "e", "n">>, <<"w", "h", "e", "r", "e">>, <<"w", "h", "y">>, <<"h", "o", "w">>, <<"a", "l", "l">>, <<"a", "n", "y">>,
      <<"b", "o", "t", "h">>, <<"e", "a", "c", "h">>, <<"f", "e", "w">>, <<"m", "o", "r", "e">>, <<"m", "o", "s", "t">>, <<"o", "t", "h", "e", "r">>, <<"s", "o", "m", "e">>,
      <<"s", "u", "c", "h">>, <<"n", "o">>, <<"n", "o", "r">>, <<"n", "o", "t">>, <<"o", "n", "l", "y">>, <<"o", "w", "n">>, <<"s", "a", "m", "e">>, <<"s", "o">>,
      <<"t", "h", "a", "n">>, <<"t", "o", "o">>, <<"v", "e", "r", "y">>, <<"c", "a", "n">>, <<"w", "i", "l", "l">>, <<"j", "u", "s", "t">>, <<"s", "h", "o", "u", "l", "d">>,
      <<"n", "o", "w">> }

WordNetBase ==
    (<<"s", "k", "i", "l", "l", "s">> :> <<"s", "k", "i", "l", "l">>) @@ (<<"y", "e", "a", "r", "s">> :> <<"y", "e", "a", "r">>) @@
    (<<"m", "a", "s", "t", "e", "r", "s">> :> <<"m", "a", "s", "t", "e", "r">>) @@ (<<"d", "e", "g", "r", "e", "e", "s">> :> <<"d", "e", "g", "r", "e", "e">>) @@
    (<<"i", "o", "s">> :> <<"i", "o">>) @@ (<<"p", "a", "s", "s">> :> <<"p", "a", "s">>) @@ (<<"d", "o", "w", "n", "s">> :> <<"d", "o", "w", "n">>)

\* a lemmatizer is given by the tokens it changes
lemmatize_by(lemmatizer, token) ==
    IF token \in DOMAIN lemmatizer THEN lemmatizer[token] ELSE token

lemmatize(token) == lemmatize_by(WordNetBase, token)

(***************************************************************************)
(* ResumeAnalyzer.extract_keywords: the tokens of the cleaned text that    *)
(* are no stopwords and longer than 2 characters, lemmatized, as a set.    *)
(***************************************************************************)
\* every token lemmatized, the stopwords and the short tokens too
lemmatized_tokens_unfiltered(text, lemmatizer) ==
    LET tokens == word_tokenize(clean_text(text))
    IN  [i \in 1..Len(tokens) |-> lemmatize_by(lemmatizer, tokens[i])]

\* lines 103-110: the tokens kept by the filter, lemmatized, in text order
lemmatized_tokens(text, lemmatizer) ==
    LET tokens == word_tokenize(clean_text(text))
        Keep(token) == lower(token) \notin stop_words /\ Len(token) > MinTokenLen
        kept == SelectSeq(tokens, Keep)
    IN  [i \in 1..Len(kept) |-> lemmatize_by(lemmatizer, kept[i])]

extract_keywords(text) == ToSet(lemmatized_tokens(text, WordNetBase))

(***************************************************************************)
(* ResumeAnalyzer.extract_skills: the technical and soft skills that are   *)
(* substrings of the lower-cased raw text, as a set.                       *)
(***************************************************************************)
\* matches the four categories of the vocabulary
extract_skills_every_category(text) ==
    LET text_lower == lower(text)
        every == technical_skills \o soft_skills \o certifications \o education
    IN  {every[i] : i \in {k \in 1..Len(every) : Contains(text_lower, every[k])}}

extract_skills(text) ==
    LET text_lower == lower(text)
    IN  {technical_skills[i] : i \in {k \in 1..Len(technical_skills) :
                                         Contains(text_lower, technical_skills[k])}}
        \cup
        {soft_skills[i] : i \in {k \in 1..Len(soft_skills) :
                                    Contains(text_lower, soft_skills[k])}}

(***************************************************************************)
(* ResumeAnalyzer.extract_experience_years.  Each pattern is matched as    *)
(* re.search does: at the leftmost start, \d+ and \s* taking all they can  *)
(* (no shorter choice can match, as a digit or a space would follow).      *)
(* A match is <<start, first digit, end of digits>>, <<>> when none.       *)
(***************************************************************************)
\* years?  at i: the index after it, 0 when it does not match.
AfterYears(s, i) ==
    IF ~StartsAt(s, i, <<"y", "e", "a", "r">>) THEN 0
    ELSE IF i + 4 <= Len(s) /\ s[i + 4] = "s" THEN i + 5 ELSE i + 4

\* (\d+)\s*years?\s*of\s*experience at i
MatchYearsOf(s, i) ==
    LET e == SkipDigits(s, i)
        y == AfterYears(s, SkipSpaces(s, e))
        o == SkipSpaces(s, y)
    IN  /\ e > i
        /\ y > 0
        /\ StartsAt(s, o, <<"o", "f">>)
        /\ StartsAt(s, SkipSpaces(s, o + 2), <<"e", "x", "p", "e", "r", "i", "e", "n", "c", "e">>)

\* experience:\s*(\d+)\s*years? at i
MatchExperienceColon(s, i) ==
    LET d == SkipSpaces(s, i + 11)
        e == SkipDigits(s, d)
    IN  /\ StartsAt(s, i, <<"e", "x", "p", "e", "r", "i", "e", "n", "c", "e", ":">>)
        /\ e > d
        /\ AfterYears(s, SkipSpaces(s, e)) > 0

\* (\d+)\s*years?\s*in\s*the\s*field at i
MatchYearsInField(s, i) ==
    LET e == SkipDigits(s, i)
        y == AfterYears(s, SkipSpaces(s, e))
        n == SkipSpaces(s, y)
        t == SkipSpaces(s, n + 2)
    IN  /\ e > i
        /\ y > 0
        /\ StartsAt(s, n, <<"i", "n">>)
        /\ StartsAt(s, t, <<"t", "h", "e">>)
        /\ StartsAt(s, SkipSpaces(s, t + 3), <<"f", "i", "e", "l", "d">>)

patterns == <<"years_of_experience", "experience_colon", "years_in_the_field">>

MatchAt(pattern, s, i) ==
    CASE pattern = "years_of_experience" -> MatchYearsOf(s, i)
      [] pattern = "experience_colon" -> MatchExperienceColon(s, i)
      [] pattern = "years_in_the_field" -> MatchYearsInField(s, i)

\* group(1) of the match of pattern at i
Group1(pattern, s, i) ==
    LET d == IF pattern = "experience_colon" THEN SkipSpaces(s, i + 11) ELSE i
    IN  SubSeq(s, d, SkipDigits(s, d) - 1)

\* re.search: the leftmost start of a match, 0 when there is none.
re_search(pattern, s) ==
    LET starts == {i \in 1..Len(s) : MatchAt(pattern, s, i)}
    IN  IF starts = {} THEN 0
        ELSE CHOOSE i \in starts : \A j \in starts : i <= j

RECURSIVE FirstPattern(_, _)
FirstPattern(s, k) ==
    IF k > Len(patterns) THEN NoYears
    ELSE LET m == re_search(patterns[k], s)
         IN  IF m > 0 THEN int(Group1(patterns[k], s, m))
             ELSE FirstPattern(s, k + 1)

\* the match that starts first in the text, whichever pattern it is of
extract_experience_years_leftmost(text) ==
    LET s == lower(text)
        found == {k \in 1..Len(patterns) : re_search(patterns[k], s) > 0}
    IN  IF found = {} THEN NoYears
        ELSE LET k == CHOOSE a \in found :
                          \A b \in found : re_search(patterns[a], s) <= re_search(patterns[b], s)
             IN  int(Group1(patterns[k], s, re_search(patterns[k], s)))

extract_experience_years(text) == FirstPattern(lower(text), 1)

(***************************************************************************)
(* ResumeAnalyzer.extract_education: for each degree pattern found in the  *)
(* lower-cased text, in the order of the patterns, the label made from     *)
(* the pattern by the two replace() calls.                                 *)
(***************************************************************************)
\* \s*degree at j
DegreeAt(s, j) == StartsAt(s, SkipSpaces(s, j), <<"d", "e", "g", "r", "e", "e">>)

\* <word>[^s]*s?\s*degree somewhere in s
DegreePattern(s, word) ==
    \E i \in 1..Len(s) :
        /\ StartsAt(s, i, word)
        /\ \E q \in (i + Len(word))..(Len(s) + 1) :
              /\ \A k \in (i + Len(word))..(q - 1) : s[k] # "s"
              /\ \/ DegreeAt(s, q)
                 \/ (q <= Len(s) /\ s[q] = "s" /\ DegreeAt(s, q + 1))

\* ph\.?d\.? somewhere in s
PhdPattern(s) ==
    \E i \in 1..Len(s) :
        /\ StartsAt(s, i, <<"p", "h">>)
        /\ \/ StartsAt(s, i + 2, <<"d">>)
           \/ StartsAt(s, i + 2, <<".", "d">>)

extract_education(text) ==
    LET text_lower == lower(text)
    IN  (IF DegreePattern(text_lower, <<"b", "a", "c", "h", "e", "l", "o", "r">>) THEN << <<"b", "a", "c", "h", "e", "l", "o", "r", "s", " ", "d", "e", "g", "r", "e", "e">> >> ELSE <<>>)
        \o (IF DegreePattern(text_lower, <<"m", "a", "s", "t", "e", "r">>) THEN << <<"m", "a", "s", "t", "e", "r", "s", " ", "d", "e", "g", "r", "e", "e">> >> ELSE <<>>)
        \o (IF PhdPattern(text_lower) THEN << <<"p", "h", "d">> >> ELSE <<>>)
        \o (IF DegreePattern(text_lower, <<"a", "s", "s", "o", "c", "i", "a", "t", "e">>) THEN << <<"a", "s", "s", "o", "c", "i", "a", "t", "e", "s", " ", "d", "e", "g", "r", "e", "e">> >> ELSE <<>>)

(***************************************************************************)
(* round(x, 2) of the rational x = num / den, in hundredths: the nearest   *)
(* hundredth, a tie going to the even one.  A tie needs 32 to divide den   *)
(* (10000 = 2^4 * 5^4); Python rounds the double nearest to the quotient,  *)
(* which gives the same hundredth for every den < 160 and for the long     *)
(* lists used here (den from 19999 to 20001).                              *)
(***************************************************************************)
round2(num, den) ==
    LET q == (num * 100) \div den
        r == (num * 100) % den
    IN  IF 2 * r > den \/ (2 * r = den /\ q % 2 = 1) THEN q + 1 ELSE q

(***************************************************************************)
(* ResumeAnalyzer.calculate_ats_score: 0.0 for an empty job list, else     *)
(* round(min(len(set(resume) & set(job)) / len(job) * 100, 100.0), 2).     *)
(***************************************************************************)
\* counts the resume entries found in the job list, repeats included
calculate_ats_score_counting(resume_keywords, job_keywords) ==
    IF Len(job_keywords) = 0 THEN 0
    ELSE LET job_set == ToSet(job_keywords)
             hits == {i \in 1..Len(resume_keywords) : resume_keywords[i] \in job_set}
         IN  round2(Min(Cardinality(hits) * 100, 100 * Len(job_keywords)),
                    Len(job_keywords))

\* counts repeats and leaves out min(..., 100.0)
calculate_ats_score_unclamped(resume_keywords, job_keywords) ==
    IF Len(job_keywords) = 0 THEN 0
    ELSE LET job_set == ToSet(job_keywords)
             hits == {i \in 1..Len(resume_keywords) : resume_keywords[i] \in job_set}
         IN  round2(Cardinality(hits) * 100, Len(job_keywords))

\* divides by the size of the union of the two lists
calculate_ats_score_union(resume_keywords, job_keywords) ==
    IF Len(job_keywords) = 0 THEN 0
    ELSE LET matched_keywords == ToSet(resume_keywords) \cap ToSet(job_keywords)
             all_keywords == ToSet(resume_keywords) \cup ToSet(job_keywords)
         IN  round2(Min(Cardinality(matched_keywords) * 100, 100 * Cardinality(all_keywords)),
                    Cardinality(all_keywords))

\* without the test for an empty job list: every one of no keywords is matched
calculate_ats_score_vacuous(resume_keywords, job_keywords) ==
    LET matched_keywords == ToSet(resume_keywords) \cap ToSet(job_keywords)
    IN  IF Cardinality(matched_keywords) = Len(job_keywords) THEN 10000
        ELSE round2(Min(Cardinality(matched_keywords) * 100, 100 * Len(job_keywords)),
                    Len(job_keywords))

calculate_ats_score(resume_keywords, job_keywords) ==
    IF Len(job_keywords) = 0 THEN 0
    ELSE LET matched_keywords == ToSet(resume_keywords) \cap ToSet(job_keywords)
             match_percentage_num == Cardinality(matched_keywords) * 100
             score_num == Min(match_percentage_num, 100 * Len(job_keywords))
         IN  round2(score_num, Len(job_keywords))

(***************************************************************************)
(* ResumeAnalyzer.generate_suggestions.  A suggestion is its text; the     *)
(* first one carries the keywords it lists (missing_keywords[:5]).         *)
(***************************************************************************)
Prefix(s, n) == SubSeq(s, 1, Min(n, Len(s)))

\* the rules as an if / elif chain: the first that applies is the only one
generate_suggestions_elif(resume_keywords, job_keywords, missing_keywords) ==
    IF Len(missing_keywords) > 0
    THEN << <<"Add these keywords to your resume", Prefix(missing_keywords, MaxListedMissing)>> >>
    ELSE IF Len(resume_keywords) < FewKeywords
    THEN << <<"Consider adding more specific skills and keywords to your resume">> >>
    ELSE IF ~\E i \in 1..Len(soft_skills) : soft_skills[i] \in ToSet(resume_keywords)
    THEN << <<"Include soft skills like leadership, communication, and teamwork">> >>
    ELSE IF ~\E i \in 1..Len(technical_skills) : technical_skills[i] \in ToSet(resume_keywords)
    THEN << <<"Add technical skills relevant to your target position">> >>
    ELSE <<>>

generate_suggestions(resume_keywords, job_keywords, missing_keywords) ==
    (IF Len(missing_keywords) > 0
     THEN << <<"Add these keywords to your resume", Prefix(missing_keywords, MaxListedMissing)>> >>
     ELSE <<>>)
    \o (IF Len(resume_keywords) < FewKeywords
        THEN << <<"Consider adding more specific skills and keywords to your resume">> >>
        ELSE <<>>)
    \o (IF ~\E i \in 1..Len(soft_skills) : soft_skills[i] \in ToSet(resume_keywords)
        THEN << <<"Include soft skills like leadership, communication, and teamwork">> >>
        ELSE <<>>)
    \o (IF ~\E i \in 1..Len(technical_skills) : technical_skills[i] \in ToSet(resume_keywords)
        THEN << <<"Add technical skills relevant to your target position">> >>
        ELSE <<>>)

(***************************************************************************)
(* The documents (byte strings) of the model and what the parsers make of  *)
(* them.  "b1" is a PDF, "b2" a DOCX file, "b3" a PDF in which pdfplumber *)
(* finds no text and PyPDF2 would.  A parser that raises is <<FALSE, "">>. *)
(***************************************************************************)
Bytes == {"b1", "b2", "b3"}

TextPdf == <<"P", "y", "t", "h", "o", "n", " ", "s", "k", "i", "l", "l", "s", ",", " ", "S", "Q", "L", ".", " ", "5", " ", "y", "e", "a", "r", "s", " ", "o", "f", " ", "e", "x", "p", "e", "r", "i", "e", "n", "c", "e">>
TextDocx == <<"L", "e", "a", "d", "e", "r", "s", "h", "i", "p", " ", "s", "k", "i", "l", "l", "\n", "M", "a", "s", "t", "e", "r", "s", " ", "d", "e", "g", "r", "e", "e", "\n">>
TextBlank == <<" ", "\n">>

Raises == <<FALSE, <<>>>>

\* pdfplumber: the concatenated page texts
pdfplumber_text ==
    ("b1" :> <<TRUE, TextPdf>>) @@ ("b2" :> Raises) @@ ("b3" :> <<TRUE, TextBlank>>)

\* PyPDF2: the concatenated page texts
PyPDF2_text ==
    ("b1" :> <<TRUE, TextPdf>>) @@ ("b2" :> Raises) @@ ("b3" :> <<TRUE, TextPdf>>)

\* python-docx: the paragraph texts, each followed by a newline
docx_text ==
    ("b1" :> Raises) @@ ("b2" :> <<TRUE, TextDocx>>) @@ ("b3" :> Raises)

\* How a method ends (it returns a value, or an exception leaves it) and the
\* parsers it has run, in order.
Outcome(kind, value, attempts) == [kind |-> kind, value |-> value, attempts |-> attempts]

\* no try around the second parser: its exception leaves the method
pdf_strategies_bare(A, B) ==
    IF A[1] THEN Outcome("return", A[2], <<"pdfplumber">>)
    ELSE IF B[1] THEN Outcome("return", B[2], <<"pdfplumber", "PyPDF2">>)
    ELSE Outcome("raise", <<>>, <<"pdfplumber", "PyPDF2">>)

\* PyPDF2 also when pdfplumber returns a text that is empty or blank
pdf_strategies_until_text(A, B) ==
    IF A[1] /\ strip(A[2]) # <<>> THEN Outcome("return", A[2], <<"pdfplumber">>)
    ELSE IF B[1] THEN Outcome("return", B[2], <<"pdfplumber", "PyPDF2">>)
    ELSE Outcome("return", <<>>, <<"pdfplumber", "PyPDF2">>)

\* extract_text_from_pdf, given what pdfplumber (A) and PyPDF2 (B) make of the
\* document: A's text if A does not raise; else B's text if B does not raise;
\* else "".
pdf_strategies(A, B) ==
    IF A[1] THEN Outcome("return", A[2], <<"pdfplumber">>)
    ELSE IF B[1] THEN Outcome("return", B[2], <<"pdfplumber", "PyPDF2">>)
    ELSE Outcome("return", <<>>, <<"pdfplumber", "PyPDF2">>)

\* extract_text_from_docx, given what python-docx (D) makes of the document
docx_strategy(D) ==
    IF D[1] THEN Outcome("return", D[2], <<"python-docx">>)
    ELSE Outcome("return", <<>>, <<"python-docx">>)

extract_text_from_pdf(file_content) ==
    pdf_strategies(pdfplumber_text[file_content], PyPDF2_text[file_content]).value

extract_text_from_docx(file_content) == docx_strategy(docx_text[file_content]).value

Filenames == { <<"C", "V", ".", "P", "D", "F">>, <<"c", "v", ".", "d", "o", "c", "x">>, <<"c", "v", ".", "t", "x", "t">> }

JobDescriptions == { <<>>, <<"P", "y", "t", "h", "o", "n", ",", " ", "l", "e", "a", "d", "e", "r", "s", "h", "i", "p">>, <<"s", "k", "i", "l", "l", "s">>, <<"t", "h", "e", " ", "o", "f">> }

\* a job description with two keywords that the PDF text lacks
TwoMissing == <<"D", "o", "c", "k", "e", "r", ",", " ", "l", "e", "a", "d", "e", "r", "s", "h", "i", "p">>

AllJobDescriptions == JobDescriptions \cup {TwoMissing}

IsPdf(filename) == endswith(lower(filename), <<".", "p", "d", "f">>)

IsDocx(filename) == endswith(lower(filename), <<".", "d", "o", "c", "x">>)

(***************************************************************************)
(* hashlib.md5(...).hexdigest(), free of collisions on the documents of    *)
(* the model, and the cache key made from it.                              *)
(***************************************************************************)
md5_hexdigest ==
    ("b1" :> "d1") @@ ("b2" :> "d2") @@ ("b3" :> "d3") @@ ("t1" :> "d4") @@ ("t2" :> "d5")

\* one key for every document
cache_key_shared(file_content) == <<"resume:analysis:", "">>

cache_key(file_content) == <<"resume:analysis:", md5_hexdigest[file_content]>>

CacheKeys == {cache_key(b) : b \in Bytes}

\* a map with no key
EmptyMap == [k \in {} |-> {}]

(***************************************************************************)
(* json.dumps / json.loads of a result: the members in insertion order.    *)
(***************************************************************************)
ResultFields ==
    <<"extracted_text", "keywords", "skills", "experience_years", "education",
      "ats_score", "suggestions", "matched_keywords", "missing_keywords",
      "analyzed_at">>

json_dumps(result) == [i \in 1..Len(ResultFields) |-> <<ResultFields[i], result[ResultFields[i]]>>]

FieldIndex == [f \in ToSet(ResultFields) |-> CHOOSE i \in 1..Len(ResultFields) : ResultFields[i] = f]

json_loads(s) == [f \in {s[i][1] : i \in 1..Len(s)} |-> s[FieldIndex[f]][2]]

(***************************************************************************)
(* Redis, a map from keys to values with expiry times: GET gives <<v>> for *)
(* a key that is set and not expired and <<>> (nil) otherwise; SETEX sets  *)
(* the value and the time at which the key expires.                        *)
(***************************************************************************)
redis_get(store, key, time) ==
    IF key \in DOMAIN store /\ time < store[key].exp THEN <<store[key].value>> ELSE <<>>

redis_setex(store, key, seconds, value, time) ==
    [k \in DOMAIN store \cup {key} |->
        IF k = key THEN [value |-> value, exp |-> time + seconds] ELSE store[k]]

\* keeps a key through the instant at which it expires
redis_expire_late(store, time) ==
    [k \in {x \in DOMAIN store : time <= store[x].exp} |-> store[k]]

\* the keys that have expired by the given time are gone
redis_expire(store, time) ==
    [k \in {x \in DOMAIN store : time < store[x].exp} |-> store[k]]

(***************************************************************************)
(* The features of the texts and the keywords of the job descriptions,     *)
(* computed once per text.                                                 *)
(***************************************************************************)
ResumeTexts == {TextPdf, TextDocx}

Features ==
    [t \in ResumeTexts |->
        [keywords |-> extract_keywords(t),
         skills |-> extract_skills(t),
         experience_years |-> extract_experience_years(t),
         education |-> extract_education(t)]]

JobKeywords == [jd \in AllJobDescriptions |-> extract_keywords(jd)]

\* list(S): the orders in which a set may be enumerated
RECURSIVE ListsOf(_)
ListsOf(S) ==
    IF S = {} THEN {<<>>}
    ELSE UNION {{<<x>> \o l : l \in ListsOf(S \ {x})} : x \in S}

\* one enumeration of a set, for the callees that read no order
RECURSIVE AsList(_)
AsList(S) ==
    IF S = {} THEN <<>>
    ELSE LET x == CHOOSE y \in S : TRUE IN <<x>> \o AsList(S \ {x})

(***************************************************************************)
(* State.                                                                  *)
(*   cache      the Redis keys that are set, with value and expiry time    *)
(*   now        the clock                                                  *)
(*   ticks      how often the clock has advanced                           *)
(*   ret        the last call of analyze_resume: its arguments, how it     *)
(*              ended, the pipeline steps it ran and the result returned   *)
(*   stored     history: for each key that is set, the result returned by  *)
(*              the call that set it                                       *)
(*   expired    history: the keys that have expired at least once          *)
(*   obs        history: one earlier call, remembered                      *)
(*   sc_resume, sc_job, sc_score   a call of calculate_ats_score           *)
(*   tasks      the calls of analyze_resume that run concurrently: for     *)
(*              each its arguments, its position and its local variables   *)
(*   resume_analyzer   the global of backend/main.py                       *)
(*   response   the last answer of an HTTP endpoint, with its request      *)
(*   files      the files the endpoints have written (uploads/, the S3     *)
(*              bucket, local_storage/resumes/), in the order written      *)
(*   resume_analyses   the in-memory dict of main_local.py, file_id being  *)
(*              the position, and that of main.py, keyed by file_id        *)
(*   db_resumes the documents inserted into the MongoDB collection resumes *)
(*   fn         a call of one function of the pipeline on its own          *)
(***************************************************************************)
VARIABLES cache, now, ticks, ret, stored, expired, obs, sc_resume, sc_job, sc_score,
          tasks, resume_analyzer, response, files, resume_analyses, db_resumes, fn

engine_vars == <<cache, now, ticks, ret, stored, expired, obs>>

sc_vars == <<sc_resume, sc_job, sc_score>>

app_vars == <<tasks, resume_analyzer, response, files, resume_analyses, db_resumes, fn>>

vars == <<cache, now, ticks, ret, stored, expired, obs, sc_resume, sc_job, sc_score,
          tasks, resume_analyzer, response, files, resume_analyses, db_resumes, fn>>

\* the values of the variables a specification does not use
NoResponse ==
    [app |-> "", endpoint |-> "", request |-> <<>>, status_code |-> 0, detail |-> "",
     body |-> <<>>]

NoFn == [name |-> "", args |-> <<>>, ret |-> <<>>]

AppIdle ==
    /\ tasks = <<>>
    /\ resume_analyzer = "unset"
    /\ response = NoResponse
    /\ files = <<>>
    /\ resume_analyses = <<>>
    /\ db_resumes = <<>>
    /\ fn = NoFn

NoCall ==
    [file_content |-> "", filename |-> <<>>, job_description |-> <<>>,
     status |-> "none", hit |-> FALSE, ran |-> {}, result |-> <<>>]

Init ==
    /\ cache = EmptyMap
    /\ now = 0
    /\ ticks = 0
    /\ ret = NoCall
    /\ stored = EmptyMap
    /\ expired = {}
    /\ obs = <<>>
    /\ AppIdle
    /\ sc_resume = <<>>
    /\ sc_job = <<>>
    /\ sc_score = <<>>

(***************************************************************************)
(* analyze_resume, lines 233-260: the result for an extracted text.        *)
(* missing_list is list(set(job_keywords) - set(keywords)).                *)
(***************************************************************************)
MatchedOf(keywords, job_keywords) == keywords \cap job_keywords

\* every job keyword, found in the resume or not
MissingOf_all(keywords, job_keywords) == job_keywords

MissingOf(keywords, job_keywords) == job_keywords \ keywords

BuildResult(text, job_description, missing_list, time) ==
    LET keywords == Features[text].keywords
        scored == job_description # <<>>
        job_keywords == IF scored THEN JobKeywords[job_description] ELSE {}
    IN  [extracted_text |-> text,
         keywords |-> keywords,
         skills |-> Features[text].skills,
         experience_years |-> Features[text].experience_years,
         education |-> Features[text].education,
         ats_score |-> IF scored
                       THEN calculate_ats_score(AsList(keywords), AsList(job_keywords))
                       ELSE 0,
         suggestions |-> generate_suggestions(AsList(keywords), AsList(job_keywords),
                                              missing_list),
         matched_keywords |-> IF scored THEN MatchedOf(keywords, job_keywords) ELSE {},
         missing_keywords |-> ToSet(missing_list),
         analyzed_at |-> time]

MissingLists(text, job_description) ==
    IF job_description # <<>>
    THEN ListsOf(MissingOf(Features[text].keywords, JobKeywords[job_description]))
    ELSE {<<>>}

\* The results of the model's texts and job descriptions, computed once
\* (analyzed_at is set by the call).
Built ==
    [t \in ResumeTexts |->
        [jd \in AllJobDescriptions |->
            [ml \in MissingLists(t, jd) |-> BuildResult(t, jd, ml, 0)]]]

\* The text analyze_resume extracts (lines 217-220), <<>> when the parser fails
\* or finds none; computed once per document and extension.
Extracted ==
    [b \in Bytes |->
        [f \in Filenames |->
            IF IsPdf(f) THEN extract_text_from_pdf(b)
            ELSE IF IsDocx(f) THEN extract_text_from_docx(b)
            ELSE <<>>]]

Supported == {f \in Filenames : IsPdf(f) \/ IsDocx(f)}

HasText == {t \in {Extracted[b][f] : b \in Bytes, f \in Filenames} : strip(t) # <<>>}

(***************************************************************************)
(* analyze_resume(file_content, filename, job_description).                *)
(***************************************************************************)
Call(b, f, jd, status, hit, ran, result) ==
    [file_content |-> b, filename |-> f, job_description |-> jd,
     status |-> status, hit |-> hit, ran |-> ran, result |-> result]

\* a hit that sets the key again, with a new lifetime
ServeCached_refresh(b, f, jd, cached_result) ==
    /\ ret' = Call(b, f, jd, "ok", TRUE, {}, <<json_loads(cached_result[1])>>)
    /\ cache' = redis_setex(cache, cache_key(b), TTL, cached_result[1], now)
    /\ UNCHANGED stored

ServeCached(b, f, jd, cached_result) ==
    /\ ret' = Call(b, f, jd, "ok", TRUE, {}, <<json_loads(cached_result[1])>>)
    /\ UNCHANGED <<cache, stored>>

RaiseUnsupported(b, f, jd) ==
    /\ ret' = Call(b, f, jd, "unsupported", FALSE, {}, <<>>)
    /\ UNCHANGED <<cache, stored>>

\* a failing call that drops the keys that are set
RaiseNoText_flush(b, f, jd) ==
    /\ ret' = Call(b, f, jd, "extraction", FALSE, {"extract"}, <<>>)
    /\ cache' = EmptyMap
    /\ stored' = EmptyMap

RaiseNoText(b, f, jd) ==
    /\ ret' = Call(b, f, jd, "extraction", FALSE, {"extract"}, <<>>)
    /\ UNCHANGED <<cache, stored>>

ComputeAndStore(b, f, jd, text) ==
    \E missing_list \in MissingLists(text, jd) :
        LET result == [Built[text][jd][missing_list] EXCEPT !.analyzed_at = now]
            ran == {"extract", "features", "suggest", "store"}
                       \cup (IF jd # <<>> THEN {"score"} ELSE {})
        IN  /\ cache' = redis_setex(cache, cache_key(b), TTL, json_dumps(result), now)
            /\ stored' = [k \in DOMAIN stored \cup {cache_key(b)} |->
                             IF k = cache_key(b) THEN result ELSE stored[k]]
            /\ ret' = Call(b, f, jd, "ok", FALSE, ran, <<result>>)

analyze_resume(b, f, jd) ==
    LET cached_result == redis_get(cache, cache_key(b), now)
    IN  /\ IF cached_result # <<>> THEN ServeCached(b, f, jd, cached_result)
           ELSE IF f \in Supported
           THEN LET text == Extracted[b][f]
                IN  IF text \notin HasText THEN RaiseNoText(b, f, jd)
                    ELSE ComputeAndStore(b, f, jd, text)
           ELSE RaiseUnsupported(b, f, jd)
        /\ UNCHANGED <<now, ticks, expired, obs, sc_vars>>

Analyze ==
    /\ \E b \in Bytes, f \in Filenames, jd \in JobDescriptions : analyze_resume(b, f, jd)
    /\ UNCHANGED app_vars

(***************************************************************************)
(* Time passes: the expired keys are gone.                                 *)
(***************************************************************************)
Tick ==
    /\ ticks < MaxTicks
    /\ \E d \in {1, TTL - 1} :
          /\ now' = now + d
          /\ cache' = redis_expire(cache, now + d)
          /\ stored' = [k \in DOMAIN redis_expire(cache, now + d) |-> stored[k]]
          /\ expired' = expired \cup (DOMAIN cache \ DOMAIN redis_expire(cache, now + d))
    /\ ticks' = ticks + 1
    /\ UNCHANGED <<ret, obs, sc_vars, app_vars>>

Next == Analyze \/ Tick

Spec == Init /\ [][Next]_vars

(***************************************************************************)
(* The calls on one document under one file name, with one earlier return  *)
(* of a call without job description remembered.                           *)
(***************************************************************************)
Remember ==
    /\ obs = <<>>
    /\ ret.status = "ok"
    /\ ret.job_description = <<>>
    /\ obs' = <<[file_content |-> ret.file_content, filename |-> ret.filename,
                 result |-> ret.result[1]]>>
    /\ UNCHANGED <<cache, now, ticks, ret, stored, expired, sc_vars, app_vars>>

AnalyzeOne ==
    /\ \E jd \in JobDescriptions : analyze_resume("b1", <<"C", "V", ".", "P", "D", "F">>, jd)
    /\ UNCHANGED app_vars

PairNext == AnalyzeOne \/ Tick \/ Remember

SpecPair == Init /\ [][PairNext]_vars

(***************************************************************************)
(* calculate_ats_score called on its own: the arguments are any two short  *)
(* lists (with repeats), or the lists 1..n-miss and 1..n for a long job    *)
(* list.                                                                   *)
(***************************************************************************)
ScoreTokens == {"python", "sql", "docker"}

RECURSIVE ListsUpTo(_, _)
ListsUpTo(S, n) ==
    IF n = 0 THEN {<<>>}
    ELSE LET shorter == ListsUpTo(S, n - 1)
         IN  shorter \cup {Append(l, x) : l \in shorter, x \in S}

Iota(n) == [i \in 1..n |-> i]

SmallLists == ListsUpTo(ScoreTokens, MaxListLen)

LargeInputs ==
    {<<Iota(n - miss), Iota(n)>> : n \in {BigJobLen - 1, BigJobLen}, miss \in 0..1}

ScoreInit ==
    /\ cache = EmptyMap
    /\ now = 0
    /\ ticks = 0
    /\ ret = NoCall
    /\ stored = EmptyMap
    /\ expired = {}
    /\ obs = <<>>
    /\ AppIdle
    /\ \E args \in (SmallLists \X SmallLists) \cup LargeInputs :
           sc_resume = args[1] /\ sc_job = args[2]
    /\ sc_score = <<>>

ScoreCall ==
    /\ sc_score = <<>>
    /\ sc_score' = <<calculate_ats_score(sc_resume, sc_job)>>
    /\ UNCHANGED <<sc_resume, sc_job, engine_vars, app_vars>>

ScoreNext == ScoreCall

SpecScore == ScoreInit /\ [][ScoreNext]_vars

(***************************************************************************)
(* Concurrent calls of analyze_resume with the same arguments, started     *)
(* with nothing cached.  A call gives way to the others where the code     *)
(* awaits: at redis.get (line 212) and at redis.setex (line 263).          *)
(*   pc "get"      before the answer of redis.get                          *)
(*   pc "compute"  after a miss, lines 216-260 to run                      *)
(*   pc "setex"    result built, before redis.setex                        *)
(*   pc "done"     returned (status "ok") or raised                        *)
(* replaced is history: the live entry a call's setex wrote over.          *)
(***************************************************************************)
MaxCalls == 2

ConcArgs == {"b1", "b3"} \X { <<"C", "V", ".", "P", "D", "F">>, <<"c", "v", ".", "t", "x", "t">> } \X {<<>>, TwoMissing}

ConcInit ==
    /\ cache = EmptyMap
    /\ now = 0
    /\ ticks = 0
    /\ ret = NoCall
    /\ stored = EmptyMap
    /\ expired = {}
    /\ obs = <<>>
    /\ sc_resume = <<>>
    /\ sc_job = <<>>
    /\ sc_score = <<>>
    /\ resume_analyzer = "unset"
    /\ response = NoResponse
    /\ files = <<>>
    /\ resume_analyses = <<>>
    /\ db_resumes = <<>>
    /\ fn = NoFn
    /\ \E args \in ConcArgs :
          tasks = [p \in 1..MaxCalls |->
                      [file_content |-> args[1], filename |-> args[2],
                       job_description |-> args[3], pc |-> "get", status |-> "none",
                       hit |-> FALSE, result |-> <<>>, replaced |-> <<>>]]

conc_frame ==
    <<now, ticks, ret, expired, obs, sc_vars, resume_analyzer, response, files,
      resume_analyses, db_resumes, fn>>

Get(p) ==
    /\ tasks[p].pc = "get"
    /\ LET cached_result == redis_get(cache, cache_key(tasks[p].file_content), now)
       IN  tasks' = [tasks EXCEPT ![p] =
                        IF cached_result # <<>>
                        THEN [@ EXCEPT !.pc = "done", !.status = "ok", !.hit = TRUE,
                                       !.result = <<json_loads(cached_result[1])>>]
                        ELSE [@ EXCEPT !.pc = "compute"]]
    /\ UNCHANGED <<cache, stored, conc_frame>>

Compute(p) ==
    /\ tasks[p].pc = "compute"
    /\ LET t == tasks[p]
           text == Extracted[t.file_content][t.filename]
       IN  IF t.filename \notin Supported
           THEN tasks' = [tasks EXCEPT ![p] = [@ EXCEPT !.pc = "done", !.status = "unsupported"]]
           ELSE IF text \notin HasText
           THEN tasks' = [tasks EXCEPT ![p] = [@ EXCEPT !.pc = "done", !.status = "extraction"]]
           ELSE \E missing_list \in MissingLists(text, t.job_description) :
                   tasks' = [tasks EXCEPT ![p] =
                       [@ EXCEPT !.pc = "setex",
                                 !.result = <<[Built[text][t.job_description][missing_list]
                                                  EXCEPT !.analyzed_at = now]>>]]
    /\ UNCHANGED <<cache, stored, conc_frame>>

\* a write over a live entry that keeps the score of that entry
Setex_merged(p) ==
    /\ tasks[p].pc = "setex"
    /\ LET k == cache_key(tasks[p].file_content)
           live == redis_get(cache, k, now)
           result == IF live = <<>> THEN tasks[p].result[1]
                     ELSE [tasks[p].result[1] EXCEPT
                              !.ats_score = json_loads(live[1]).ats_score]
       IN  /\ cache' = redis_setex(cache, k, TTL, json_dumps(result), now)
           /\ stored' = [j \in DOMAIN stored \cup {k} |-> IF j = k THEN result ELSE stored[j]]
           /\ tasks' = [tasks EXCEPT ![p] = [@ EXCEPT !.pc = "done", !.status = "ok"]]
    /\ UNCHANGED conc_frame

\* a write whose value carries the time of the write
Setex_restamped(p) ==
    /\ tasks[p].pc = "setex"
    /\ LET k == cache_key(tasks[p].file_content)
           result == [tasks[p].result[1] EXCEPT !.analyzed_at = now]
       IN  /\ cache' = redis_setex(cache, k, TTL, json_dumps(result), now)
           /\ stored' = [j \in DOMAIN stored \cup {k} |-> IF j = k THEN result ELSE stored[j]]
           /\ tasks' = [tasks EXCEPT ![p] = [@ EXCEPT !.pc = "done", !.status = "ok"]]
    /\ UNCHANGED conc_frame

Setex(p) ==
    /\ tasks[p].pc = "setex"
    /\ LET k == cache_key(tasks[p].file_content)
           result == tasks[p].result[1]
       IN  /\ cache' = redis_setex(cache, k, TTL, json_dumps(result), now)
           /\ stored' = [j \in DOMAIN stored \cup {k} |-> IF j = k THEN result ELSE stored[j]]
           /\ tasks' = [tasks EXCEPT ![p] =
                           [@ EXCEPT !.pc = "done", !.status = "ok",
                                     !.replaced = IF redis_get(cache, k, now) # <<>>
                                                  THEN <<cache[k]>> ELSE <<>>]]
    /\ UNCHANGED conc_frame

TaskStep(p) == Get(p) \/ Compute(p) \/ Setex(p)

ConcNext == (\E p \in 1..MaxCalls : Get(p) \/ Compute(p) \/ Setex(p)) \/ Tick

SpecConc == ConcInit /\ [][ConcNext]_vars

\* every call that can take a step takes one in the end: the event loop runs
\* each task whose await has been answered, and Redis answers
FairConc == SpecConc /\ \A p \in 1..MaxCalls : WF_vars(TaskStep(p))

(***************************************************************************)
(* Concurrent calls of analyze_resume on the same document, each with a    *)
(* job description of its own, started with nothing cached, while the      *)
(* clock stands still.                                                     *)
(***************************************************************************)
RaceJobs == { TwoMissing, <<"P", "y", "t", "h", "o", "n", ",", " ", "l", "e", "a", "d", "e", "r", "s", "h", "i", "p">>, <<"s", "k", "i", "l", "l", "s">> }

JobsInit ==
    /\ cache = EmptyMap
    /\ now = 0
    /\ ticks = 0
    /\ ret = NoCall
    /\ stored = EmptyMap
    /\ expired = {}
    /\ obs = <<>>
    /\ sc_resume = <<>>
    /\ sc_job = <<>>
    /\ sc_score = <<>>
    /\ resume_analyzer = "unset"
    /\ response = NoResponse
    /\ files = <<>>
    /\ resume_analyses = <<>>
    /\ db_resumes = <<>>
    /\ fn = NoFn
    /\ \E jobs \in [1..MaxCalls -> RaceJobs] :
          /\ \A p, q \in 1..MaxCalls : p # q => jobs[p] # jobs[q]
          /\ tasks = [p \in 1..MaxCalls |->
                         [file_content |-> "b1", filename |-> <<"C", "V", ".", "P", "D", "F">>,
                          job_description |-> jobs[p], pc |-> "get", status |-> "none",
                          hit |-> FALSE, result |-> <<>>, replaced |-> <<>>]]

JobsNext == \E p \in 1..MaxCalls : Get(p) \/ Compute(p) \/ Setex(p)

SpecJobs == JobsInit /\ [][JobsNext]_vars

(***************************************************************************)
(* The HTTP applications backend/main.py and backend/main_local.py: their  *)
(* start-up and the endpoints POST /api/v1/resume/analyze and              *)
(* POST /api/v1/job/match.  The clock stands still here.                   *)
(***************************************************************************)
MaxUploads == 2

HttpBytes == {"b1", "b3"}

HttpJobs == {<<>>, <<"P", "y", "t", "h", "o", "n", ",", " ", "l", "e", "a", "d", "e", "r", "s", "h", "i", "p">>}

\* the resume_text values posted to job/match, and resume_text.encode()
PostedTexts == {TextPdf, <<>>}

encode == (TextPdf :> "t1") @@ (<<>> :> "t2")

\* the parameters of ResumeAnalyzer.__init__ after self, and the arguments
\* startup_event passes
ResumeAnalyzer_params == <<"db", "redis_client">>

startup_args == <<"get_database()">>

\* str(e) of the ValueError raised by analyze_resume
ValueError_message ==
    [unsupported |-> "Unsupported file format. Please upload PDF or DOCX files.",
     extraction |-> "Could not extract text from the uploaded file."]

InternalServerError ==
    [unsupported |-> "Internal server error: Unsupported file format. Please upload PDF or DOCX files.",
     extraction |-> "Internal server error: Could not extract text from the uploaded file.",
     storage |-> "Internal server error: put_object failed"]

\* str(e) of HTTPException(400, "Only PDF and DOCX files are supported"): the
\* status and the detail in Starlette versions that define __str__, empty in
\* those that do not
str_HTTPException == {"400: Only PDF and DOCX files are supported", ""}

Answer(app, endpoint, request, status_code, detail, body) ==
    [app |-> app, endpoint |-> endpoint, request |-> <<request>>,
     status_code |-> status_code, detail |-> detail, body |-> body]

ResumeAnalysisResponse(file_id, analysis_result) ==
    [f \in (ToSet(ResultFields) \ {"analyzed_at"}) \cup {"file_id"} |->
        IF f = "file_id" THEN file_id ELSE analysis_result[f]]

JobMatchResponse(analysis_result, gaps) ==
    LET match_percentage == analysis_result.ats_score
    IN  [match_percentage |-> match_percentage,
         gaps |-> gaps,
         learning_resources |-> [i \in 1..Min(Len(gaps), MaxListedMissing) |->
                                    <<"Learn ", gaps[i], ": https://example.com/learn/", gaps[i]>>],
         pass_probability |-> Min(match_percentage + 2000, 10000)]

\* LocalResumeAnalyzer.analyze_resume: the pipeline without the cache; the
\* outcomes a call may have
local_analyze_resume(file_content, filename, job_description) ==
    IF ~(IsPdf(filename) \/ IsDocx(filename))
    THEN {[status |-> "unsupported", result |-> <<>>, missing_list |-> <<>>]}
    ELSE LET text == Extracted[file_content][filename]
         IN  IF text \notin HasText
             THEN {[status |-> "extraction", result |-> <<>>, missing_list |-> <<>>]}
             ELSE {[status |-> "ok",
                    result |-> <<[Built[text][job_description][missing_list]
                                     EXCEPT !.analyzed_at = now]>>,
                    missing_list |-> missing_list] :
                      missing_list \in MissingLists(text, job_description)}

HttpInit ==
    /\ cache = EmptyMap
    /\ now = 0
    /\ ticks = 0
    /\ ret = NoCall
    /\ stored = EmptyMap
    /\ expired = {}
    /\ obs = <<>>
    /\ sc_resume = <<>>
    /\ sc_job = <<>>
    /\ sc_score = <<>>
    /\ AppIdle

engine_idle == UNCHANGED <<cache, now, ticks, ret, stored, expired, obs, sc_vars>>

startup_event ==
    /\ resume_analyzer = "unset"
    /\ resume_analyzer' = IF Len(startup_args) = Len(ResumeAnalyzer_params)
                          THEN "ResumeAnalyzer" ELSE "None"
    /\ engine_idle
    /\ UNCHANGED <<tasks, response, files, resume_analyses, db_resumes, fn>>

\* the upload to the storage before the two checks
analyze_resume_ats_upload_first(file_content, filename, job_description) ==
    LET request == [file_content |-> file_content, filename |-> filename,
                    job_description |-> job_description]
        answer(status_code, detail) ==
            Answer("backend/main.py", "POST /api/v1/resume/analyze", request,
                   status_code, detail, <<>>)
    IN  /\ resume_analyzer # "unset"
        /\ Len(files) < MaxUploads
        /\ files' = Append(files, [app |-> "backend/main.py", filename |-> filename,
                                   content |-> file_content])
        /\ response' = IF resume_analyzer = "None"
                       THEN answer(500, "Resume analyzer not initialized")
                       ELSE IF ~(IsPdf(filename) \/ IsDocx(filename))
                       THEN answer(400, "Only PDF and DOCX files are supported")
                       ELSE answer(500, "Failed to retrieve file content")
        /\ engine_idle
        /\ UNCHANGED <<tasks, resume_analyzer, resume_analyses, db_resumes, fn>>

\* backend/main.py, POST /api/v1/resume/analyze
analyze_resume_ats(file_content, filename, job_description) ==
    LET request == [file_content |-> file_content, filename |-> filename,
                    job_description |-> job_description]
        answer(status_code, detail, body) ==
            Answer("backend/main.py", "POST /api/v1/resume/analyze", request,
                   status_code, detail, body)
        stored_file == [app |-> "backend/main.py", filename |-> filename,
                        content |-> file_content]
    IN  /\ resume_analyzer # "unset"
        /\ IF resume_analyzer = "None"
           THEN /\ response' = answer(500, "Resume analyzer not initialized", <<>>)
                /\ engine_idle
                /\ UNCHANGED <<files, db_resumes>>
           ELSE IF ~(IsPdf(filename) \/ IsDocx(filename))
           THEN /\ response' = answer(400, "Only PDF and DOCX files are supported", <<>>)
                /\ engine_idle
                /\ UNCHANGED <<files, db_resumes>>
           ELSE /\ Len(files) < MaxUploads
                /\ \E s3 \in {"ok", "put_object fails", "get_object fails"},
                      inserted \in BOOLEAN :
                      IF s3 = "put_object fails"
                      THEN /\ response' = answer(500, InternalServerError.storage, <<>>)
                           /\ engine_idle
                           /\ UNCHANGED <<files, db_resumes>>
                      ELSE IF s3 = "get_object fails"
                      THEN /\ response' = answer(500, "Failed to retrieve file content", <<>>)
                           /\ files' = Append(files, stored_file)
                           /\ engine_idle
                           /\ UNCHANGED db_resumes
                      ELSE /\ files' = Append(files, stored_file)
                           /\ analyze_resume(file_content, filename, job_description)
                           /\ IF ret'.status = "ok"
                              THEN /\ db_resumes' =
                                         IF inserted
                                         THEN Append(db_resumes,
                                                     [filename |-> filename,
                                                      analysis_results |-> ret'.result[1]])
                                         ELSE db_resumes
                                   /\ response' =
                                         answer(200, "",
                                                <<ResumeAnalysisResponse(
                                                    IF inserted
                                                    THEN <<"inserted_id", Len(db_resumes) + 1>>
                                                    ELSE <<"temp_", "uuid4">>,
                                                    ret'.result[1])>>)
                              ELSE /\ response' = answer(500, InternalServerError[ret'.status], <<>>)
                                   /\ UNCHANGED db_resumes
        /\ UNCHANGED <<tasks, resume_analyzer, resume_analyses, fn>>

\* backend/main_local.py, POST /api/v1/resume/analyze
analyze_resume_ats_local(file_content, filename, job_description) ==
    LET request == [file_content |-> file_content, filename |-> filename,
                    job_description |-> job_description]
        answer(status_code, detail, body) ==
            Answer("backend/main_local.py", "POST /api/v1/resume/analyze", request,
                   status_code, detail, body)
    IN  /\ IF ~(IsPdf(filename) \/ IsDocx(filename))
           THEN /\ \E detail \in str_HTTPException : response' = answer(500, detail, <<>>)
                /\ UNCHANGED <<files, resume_analyses>>
           ELSE /\ Len(files) < MaxUploads
                /\ files' = Append(files, [app |-> "backend/main_local.py",
                                           filename |-> filename, content |-> file_content])
                /\ \E outcome \in local_analyze_resume(file_content, filename, job_description) :
                      IF outcome.status = "ok"
                      THEN /\ resume_analyses' =
                                 Append(resume_analyses,
                                        [filename |-> filename,
                                         analysis |-> outcome.result[1], created_at |-> now])
                           /\ response' =
                                 answer(200, "",
                                        <<ResumeAnalysisResponse(
                                            <<"uuid4", Len(resume_analyses) + 1>>,
                                            outcome.result[1])>>)
                      ELSE /\ response' = answer(500, ValueError_message[outcome.status], <<>>)
                           /\ UNCHANGED resume_analyses
        /\ engine_idle
        /\ UNCHANGED <<tasks, resume_analyzer, db_resumes, fn>>

\* backend/main.py, POST /api/v1/job/match
match_resume_to_job(resume_text, job_description) ==
    LET request == [resume_text |-> resume_text, job_description |-> job_description]
        answer(status_code, detail, body) ==
            Answer("backend/main.py", "POST /api/v1/job/match", request,
                   status_code, detail, body)
    IN  /\ resume_analyzer # "unset"
        /\ IF resume_analyzer = "None"
           THEN /\ response' = answer(500, "'NoneType' object has no attribute 'analyze_resume'",
                                      <<>>)
                /\ engine_idle
           ELSE /\ analyze_resume(encode[resume_text], <<"r", "e", "s", "u", "m", "e", ".", "t", "x", "t">>, job_description)
                /\ IF ret'.status = "ok"
                   THEN \E gaps \in ListsOf(ret'.result[1].missing_keywords) :
                           response' = answer(200, "", <<JobMatchResponse(ret'.result[1], gaps)>>)
                   ELSE response' = answer(500, ValueError_message[ret'.status], <<>>)
        /\ UNCHANGED <<tasks, resume_analyzer, files, resume_analyses, db_resumes, fn>>

\* backend/main_local.py, POST /api/v1/job/match
match_resume_to_job_local(resume_text, job_description) ==
    LET request == [resume_text |-> resume_text, job_description |-> job_description]
        answer(status_code, detail, body) ==
            Answer("backend/main_local.py", "POST /api/v1/job/match", request,
                   status_code, detail, body)
    IN  /\ \E outcome \in local_analyze_resume(encode[resume_text], <<"r", "e", "s", "u", "m", "e", ".", "t", "x", "t">>,
                                               job_description) :
              IF outcome.status = "ok"
              THEN response' = answer(200, "", <<JobMatchResponse(outcome.result[1],
                                                                  outcome.missing_list)>>)
              ELSE response' = answer(500, ValueError_message[outcome.status], <<>>)
        /\ engine_idle
        /\ UNCHANGED <<tasks, resume_analyzer, files, resume_analyses, db_resumes, fn>>

HttpNext ==
    \/ startup_event
    \/ \E file_content \in HttpBytes, filename \in Filenames, job_description \in HttpJobs :
          \/ analyze_resume_ats(file_content, filename, job_description)
          \/ analyze_resume_ats_local(file_content, filename, job_description)
    \/ \E resume_text \in PostedTexts, job_description \in HttpJobs :
          \/ match_resume_to_job(resume_text, job_description)
          \/ match_resume_to_job_local(resume_text, job_description)

SpecHttp == HttpInit /\ [][HttpNext]_vars

(***************************************************************************)
(* extract_text_from_pdf and extract_text_from_docx called on their own,   *)
(* on documents given by what the parser does with them: opening the       *)
(* document raises or gives its pages (paragraphs), and reading a page     *)
(* gives a text, gives None, or raises.                                    *)
(***************************************************************************)
MaxPages == 2

PageResults == {<<"text", <<"a">>>>, <<"text", <<>>>>, <<"None">>, <<"raise">>}

Documents ==
    {[opens |-> FALSE, pages |-> <<>>]}
        \cup {[opens |-> TRUE, pages |-> pages] : pages \in ListsUpTo(PageResults, MaxPages)}

RECURSIVE Concat(_)
Concat(texts) == IF texts = <<>> THEN <<>> ELSE Head(texts) \o Concat(Tail(texts))

\* lines 61-65: text += page.extract_text() or ""
try_pdfplumber(doc) ==
    IF ~doc.opens \/ \E i \in 1..Len(doc.pages) : doc.pages[i][1] = "raise"
    THEN Raises
    ELSE <<TRUE, Concat([i \in 1..Len(doc.pages) |->
                            IF doc.pages[i][1] = "text" THEN doc.pages[i][2] ELSE <<>>])>>

\* lines 70-74: text += page.extract_text(), a TypeError when that is None
try_PyPDF2(doc) ==
    IF ~doc.opens \/ \E i \in 1..Len(doc.pages) : doc.pages[i][1] # "text"
    THEN Raises
    ELSE <<TRUE, Concat([i \in 1..Len(doc.pages) |-> doc.pages[i][2]])>>

\* lines 83-87: text += paragraph.text + "\n"
try_docx(doc) ==
    IF ~doc.opens \/ \E i \in 1..Len(doc.pages) : doc.pages[i][1] # "text"
    THEN Raises
    ELSE <<TRUE, Concat([i \in 1..Len(doc.pages) |-> doc.pages[i][2] \o <<"\n">>])>>

FnIdle ==
    /\ cache = EmptyMap
    /\ now = 0
    /\ ticks = 0
    /\ ret = NoCall
    /\ stored = EmptyMap
    /\ expired = {}
    /\ obs = <<>>
    /\ sc_resume = <<>>
    /\ sc_job = <<>>
    /\ sc_score = <<>>
    /\ tasks = <<>>
    /\ resume_analyzer = "unset"
    /\ response = NoResponse
    /\ files = <<>>
    /\ resume_analyses = <<>>
    /\ db_resumes = <<>>

fn_frame ==
    <<engine_vars, sc_vars, tasks, resume_analyzer, response, files, resume_analyses,
      db_resumes>>

FnCall(name, args) == [name |-> name, args |-> args, ret |-> <<>>]

ExtractInit ==
    /\ FnIdle
    /\ \/ \E A \in Documents, B \in Documents :
             fn = FnCall("extract_text_from_pdf", <<A, B>>)
       \/ \E D \in Documents : fn = FnCall("extract_text_from_docx", <<D>>)

PdfCall ==
    /\ fn.name = "extract_text_from_pdf"
    /\ fn.ret = <<>>
    /\ fn' = [fn EXCEPT !.ret = <<pdf_strategies(try_pdfplumber(fn.args[1]),
                                                 try_PyPDF2(fn.args[2]))>>]
    /\ UNCHANGED fn_frame

DocxCall ==
    /\ fn.name = "extract_text_from_docx"
    /\ fn.ret = <<>>
    /\ fn' = [fn EXCEPT !.ret = <<docx_strategy(try_docx(fn.args[1]))>>]
    /\ UNCHANGED fn_frame

ExtractNext == PdfCall \/ DocxCall

SpecExtract == ExtractInit /\ [][ExtractNext]_vars

(***************************************************************************)
(* extract_keywords called on its own: the texts are up to MaxWords words  *)
(* joined by blanks, the lemmatizer is any map of the changeable tokens to  *)
(* the lemmas, and list(set(...)) enumerates the set in any order.         *)
(***************************************************************************)
MaxWords == 2

Words == { <<"i", "o", "s">>, <<"d", "o", "w", "n", "s">>, <<"I", "o", "s">>, <<"t", "h", "e">>, <<"g", "o">> }

RECURSIVE Join(_)
Join(words) ==
    IF words = <<>> THEN <<>>
    ELSE IF Len(words) = 1 THEN Head(words)
    ELSE Head(words) \o <<" ">> \o Join(Tail(words))

KeywordTexts == {Join(words) : words \in ListsUpTo(Words, MaxWords)}

Lemmatizers == [{ <<"i", "o", "s">>, <<"d", "o", "w", "n", "s">> } -> { <<"i", "o">>, <<"d", "o", "w", "n">>, <<"i", "o", "s">>, <<"d", "o", "w", "n", "s">> }]

KeywordsInit ==
    /\ FnIdle
    /\ \E text \in KeywordTexts, lemmatizer \in Lemmatizers :
          fn = FnCall("extract_keywords", <<text, lemmatizer>>)

KeywordsCall ==
    /\ fn.name = "extract_keywords"
    /\ fn.ret = <<>>
    /\ \E keywords \in ListsOf(ToSet(lemmatized_tokens(fn.args[1], fn.args[2]))) :
          fn' = [fn EXCEPT !.ret = <<keywords>>]
    /\ UNCHANGED fn_frame

KeywordsNext == KeywordsCall

SpecKeywords == KeywordsInit /\ [][KeywordsNext]_vars

(***************************************************************************)
(* generate_suggestions called on its own: the resume keywords are n       *)
(* distinct words that are no skills, followed by any of "python" and      *)
(* "leadership"; the missing keywords are the first m of six.              *)
(***************************************************************************)
MaxResumeLen == 21

Filler(n) == [i \in 1..n |-> <<"k">> \o [j \in 1..i |-> "x"]]

SkillTails == { <<>>, << <<"p", "y", "t", "h", "o", "n">> >>, << <<"l", "e", "a", "d", "e", "r", "s", "h", "i", "p">> >>, << <<"p", "y", "t", "h", "o", "n">>, <<"l", "e", "a", "d", "e", "r", "s", "h", "i", "p">> >> }

SixMissing == << <<"d", "o", "c", "k", "e", "r">>, <<"s", "q", "l">>, <<"a", "g", "i", "l", "e">>, <<"s", "c", "r", "u", "m">>, <<"e", "x", "c", "e", "l">>, <<"g", "i", "t">> >>

SuggestInit ==
    /\ FnIdle
    /\ \E n \in 0..MaxResumeLen, tail \in SkillTails, m \in 0..Len(SixMissing) :
          fn = FnCall("generate_suggestions",
                      <<Filler(n) \o tail, SixMissing, Prefix(SixMissing, m)>>)

SuggestCall ==
    /\ fn.name = "generate_suggestions"
    /\ fn.ret = <<>>
    /\ fn' = [fn EXCEPT !.ret = <<generate_suggestions(fn.args[1], fn.args[2], fn.args[3])>>]
    /\ UNCHANGED fn_frame

SuggestNext == SuggestCall

SpecSuggest == SuggestInit /\ [][SuggestNext]_vars

(***************************************************************************)
(* extract_experience_years called on its own: the texts are up to         *)
(* MaxMentions mentions joined by blanks.  A mention is a phrase with the  *)
(* pattern it is written for (0 for a phrase that fits none) and the       *)
(* number it states.                                                       *)
(***************************************************************************)
MaxMentions == 3

Mention(pattern, years, phrase) == [pattern |-> pattern, years |-> years, phrase |-> phrase]

Mentions ==
    { Mention(1, 3, <<"3", " ", "y", "e", "a", "r", "s", " ", "o", "f", " ", "e", "x", "p", "e", "r", "i", "e", "n", "c", "e">>),
      Mention(1, 12, <<"1", "2", " ", "Y", "e", "a", "r", "s", " ", "O", "f", " ", "E", "x", "p", "e", "r", "i", "e", "n", "c", "e">>),
      Mention(2, 7, <<"E", "x", "p", "e", "r", "i", "e", "n", "c", "e", ":", " ", "7", " ", "y", "e", "a", "r", "s">>),
      Mention(3, 4, <<"4", " ", "y", "e", "a", "r", " ", "i", "n", " ", "t", "h", "e", " ", "f", "i", "e", "l", "d">>),
      Mention(0, NoYears, <<"5", " ", "y", "e", "a", "r", "s", " ", "e", "x", "p", "e", "r", "i", "e", "n", "c", "e">>),
      Mention(0, NoYears, <<"y", "e", "a", "r", "s", " ", "o", "f", " ", "e", "x", "p", "e", "r", "i", "e", "n", "c", "e">>) }

MentionLists == ListsUpTo(Mentions, MaxMentions)

YearsText(mentions) == Join([i \in 1..Len(mentions) |-> mentions[i].phrase])

YearsInit ==
    /\ FnIdle
    /\ \E mentions \in MentionLists :
          fn = FnCall("extract_experience_years", <<YearsText(mentions), mentions>>)

YearsCall ==
    /\ fn.name = "extract_experience_years"
    /\ fn.ret = <<>>
    /\ fn' = [fn EXCEPT !.ret = <<extract_experience_years(fn.args[1])>>]
    /\ UNCHANGED fn_frame

YearsNext == YearsCall

SpecYears == YearsInit /\ [][YearsNext]_vars

(***************************************************************************)
(* extract_skills called on its own: the texts are up to MaxPhrases        *)
(* phrases joined by blanks; a phrase comes with the technical and soft    *)
(* skills that are written in it.  list(set(skills)) enumerates the set in *)
(* any order.                                                              *)
(***************************************************************************)
MaxPhrases == 2

Phrase(phrase, skills) == [phrase |-> phrase, skills |-> skills]

Phrases ==
    { Phrase(<<"J", "a", "v", "a", "S", "c", "r", "i", "p", "t">>, { <<"j", "a", "v", "a">>, <<"j", "a", "v", "a", "s", "c", "r", "i", "p", "t">>, <<"r">> }),
      Phrase(<<"S", "c", "r", "u", "m", " ", "M", "a", "s", "t", "e", "r">>, { <<"s", "c", "r", "u", "m">>, <<"r">> }),
      Phrase(<<"L", "E", "A", "D", "E", "R", "S", "H", "I", "P">>, { <<"l", "e", "a", "d", "e", "r", "s", "h", "i", "p">>, <<"r">> }),
      Phrase(<<"U", "n", "i", "v", "e", "r", "s", "i", "t", "y">>, { <<"r">> }),
      Phrase(<<"S", "Q", "L">>, { <<"s", "q", "l">> }),
      Phrase(<<"P", "M", "P">>, {}),
      Phrase(<<"p", "l", "u", "m", "b", "i", "n", "g">>, {}) }

PhraseLists == ListsUpTo(Phrases, MaxPhrases)

SkillsText(phrases) == Join([i \in 1..Len(phrases) |-> phrases[i].phrase])

SkillsInit ==
    /\ FnIdle
    /\ \E phrases \in PhraseLists :
          fn = FnCall("extract_skills", <<SkillsText(phrases), phrases>>)

SkillsCall ==
    /\ fn.name = "extract_skills"
    /\ fn.ret = <<>>
    /\ \E skills \in ListsOf(extract_skills(fn.args[1])) :
          fn' = [fn EXCEPT !.ret = <<skills>>]
    /\ UNCHANGED fn_frame

SkillsNext == SkillsCall

SpecSkills == SkillsInit /\ [][SkillsNext]_vars

(***************************************************************************)
(* The HTTP application main.py (version 2.0.0; its definitions that share *)
(* a name with the backend's end in _v2): POST /api/v1/resume/upload and   *)
(* POST /api/v1/resume/analyze on the dict resume_analyses and the         *)
(* directory uploads/.  The clock stands still.                            *)
(***************************************************************************)
MaxFileIds == 2

\* uuid.uuid4(): the identifiers it may return
FileIds == {<<"uuid4", n>> : n \in 1..MaxFileIds}

MaxFileSize == 10485760

MaxShownText == 500

\* an upload larger than the limit, next to the documents of the backend
UploadBytes == Bytes \cup {"big"}

file_size == ("b1" :> 2048) @@ ("b2" :> 4096) @@ ("b3" :> 1024) @@ ("big" :> 10485761)

UploadNames == { <<"C", "V", ".", "P", "D", "F">>, <<"c", "v", ".", "d", "o", "c", "x">>, <<"c", "v", ".", "d", "o", "c">>, <<"c", "v", ".", "t", "x", "t">>, <<"d", "/", "c", "v", ".", "p", "d", "f">> }

UploadJobs == { <<"P", "y", "t", "h", "o", "n", ",", " ", "l", "e", "a", "d", "e", "r", "s", "h", "i", "p">>, <<"s", "k", "i", "l", "l", "s">> }

allowed_extensions == << <<".", "p", "d", "f">>, <<".", "d", "o", "c", "x">>, <<".", "d", "o", "c">> >>

\* extract_text_from_pdf(file_path), the document being one page: the page
\* text pdfplumber gives and a newline, when there is a text; PyPDF2's added
\* when that is blank or pdfplumber raised; stripped
extract_text_from_pdf_v2(file_content) ==
    LET A == pdfplumber_text[file_content]
        B == PyPDF2_text[file_content]
        first == IF A[1] /\ A[2] # <<>> THEN A[2] \o <<"\n">> ELSE <<>>
        second == IF strip(first) # <<>> THEN first
                  ELSE IF B[1] /\ B[2] # <<>> THEN first \o B[2] \o <<"\n">>
                  ELSE first
    IN  strip(second)

\* extract_text_from_docx(file_path): the paragraphs, stripped; "" when
\* python-docx raises
extract_text_from_docx_v2(file_content) ==
    LET D == docx_text[file_content]
    IN  IF D[1] THEN strip(D[2]) ELSE <<>>

\* The lists main.py's extract_keywords, extract_skills,
\* extract_experience_years and extract_education compute from a text are
\* kept as the call that gives them: each is a function of the text alone and
\* none of them raises.
Of(function, text) == <<function, text>>

\* lines 372-379
StoredAnalysis(extracted_text, time) ==
    [extracted_text |-> extracted_text,
     keywords |-> Of("extract_keywords", extracted_text),
     skills |-> Of("extract_skills", extracted_text),
     experience_years |-> Of("extract_experience_years", extracted_text),
     education |-> Of("extract_education", extracted_text),
     uploaded_at |-> time]

\* open(file_path, "wb") fails when the directory of the path does not exist
CanOpen(filename) == "/" \notin ToSet(filename)

\* a removal that leaves the file where it is
os_remove_nothing(directory, file_path) == directory

\* os.remove(file_path)
os_remove(directory, file_path) ==
    LET Other(f) == f.filename # file_path
    IN  SelectSeq(directory, Other)

\* str(e) of HTTPException(400, "Could not extract text from the uploaded
\* file") behind "Error processing file: ": the status and the detail in
\* Starlette versions that define __str__, empty in those that do not
ErrorProcessingNoText ==
    {"Error processing file: 400: Could not extract text from the uploaded file",
     "Error processing file: "}

MainInit ==
    /\ cache = EmptyMap
    /\ now = 0
    /\ ticks = 0
    /\ ret = NoCall
    /\ stored = EmptyMap
    /\ expired = {}
    /\ obs = <<>>
    /\ sc_resume = <<>>
    /\ sc_job = <<>>
    /\ sc_score = <<>>
    /\ tasks = <<>>
    /\ resume_analyzer = "unset"
    /\ response = NoResponse
    /\ files = <<>>
    /\ resume_analyses = EmptyMap
    /\ db_resumes = <<>>
    /\ fn = NoFn

\* main.py, POST /api/v1/resume/upload
upload_resume(file_content, filename) ==
    LET request == [file_content |-> file_content, filename |-> filename]
        answer(status_code, detail, body) ==
            Answer("main.py", "POST /api/v1/resume/upload", request, status_code, detail, body)
    IN  /\ IF ~\E i \in 1..Len(allowed_extensions) :
                 endswith(lower(filename), allowed_extensions[i])
           THEN /\ response' = answer(400, "Only PDF, DOCX, and DOC files are allowed", <<>>)
                /\ UNCHANGED <<files, resume_analyses>>
           ELSE IF file_size[file_content] > MaxFileSize
           THEN /\ response' = answer(400, "File size must be less than 10MB", <<>>)
                /\ UNCHANGED <<files, resume_analyses>>
           ELSE \E file_id \in FileIds \ DOMAIN resume_analyses :
                   LET file_path == <<"uploads", file_id, filename>>
                       saved == Append(files, [app |-> "main.py", filename |-> file_path,
                                               content |-> file_content])
                       extracted_text ==
                           IF endswith(lower(filename), <<".", "p", "d", "f">>)
                           THEN extract_text_from_pdf_v2(file_content)
                           ELSE extract_text_from_docx_v2(file_content)
                   IN  IF ~CanOpen(filename)
                       THEN /\ response' =
                                  answer(500, "Error processing file: [Errno 2] No such file or directory",
                                         <<>>)
                            /\ UNCHANGED <<files, resume_analyses>>
                       ELSE IF strip(extracted_text) = <<>>
                       THEN /\ \E detail \in ErrorProcessingNoText :
                                  response' = answer(500, detail, <<>>)
                            /\ files' = os_remove(saved, file_path)
                            /\ UNCHANGED resume_analyses
                       ELSE /\ resume_analyses' =
                                  [k \in DOMAIN resume_analyses \cup {file_id} |->
                                      IF k = file_id THEN StoredAnalysis(extracted_text, now)
                                      ELSE resume_analyses[k]]
                            /\ files' = saved
                            /\ response' =
                                  answer(200, "",
                                         <<[message |-> "Resume uploaded and analyzed successfully",
                                            file_id |-> file_id,
                                            filename |-> filename,
                                            file_size |-> file_size[file_content],
                                            uploaded_at |-> now,
                                            analysis_summary |->
                                                Of("analysis_summary", extracted_text)]>>)
        /\ engine_idle
        /\ UNCHANGED <<tasks, resume_analyzer, db_resumes, fn>>

\* main.py, POST /api/v1/resume/analyze
analyze_resume_ats_v2(file_id, job_description) ==
    LET request == [file_id |-> file_id, job_description |-> job_description]
        answer(status_code, detail, body) ==
            Answer("main.py", "POST /api/v1/resume/analyze", request, status_code, detail, body)
    IN  /\ IF file_id \notin DOMAIN resume_analyses
           THEN response' = answer(404, "Resume analysis not found", <<>>)
           ELSE LET resume_data == resume_analyses[file_id]
                    text == resume_data.extracted_text
                    job_analysis == Of("analyze_job_description", job_description)
                    scoring == <<resume_data.keywords, job_analysis>>
                IN  response' =
                       answer(200, "",
                              <<[file_id |-> file_id,
                                 extracted_text |->
                                     IF Len(text) > MaxShownText
                                     THEN SubSeq(text, 1, MaxShownText) \o <<".", ".", ".">>
                                     ELSE text,
                                 keywords |-> resume_data.keywords,
                                 skills |-> resume_data.skills,
                                 experience_years |-> resume_data.experience_years,
                                 education |-> resume_data.education,
                                 ats_score |-> Of("calculate_ats_score", scoring),
                                 suggestions |-> Of("generate_suggestions", scoring),
                                 matched_keywords |-> Of("matched_keywords", scoring),
                                 missing_keywords |-> Of("missing_keywords", scoring),
                                 job_analysis |-> job_analysis,
                                 analysis_timestamp |-> now]>>)
        /\ engine_idle
        /\ UNCHANGED <<tasks, resume_analyzer, files, resume_analyses, db_resumes, fn>>

MainNext ==
    \/ \E file_content \in UploadBytes, filename \in UploadNames :
          upload_resume(file_content, filename)
    \/ \E file_id \in FileIds, job_description \in UploadJobs :
          analyze_resume_ats_v2(file_id, job_description)

SpecMain == MainInit /\ [][MainNext]_vars

(***************************************************************************)
(* Properties.                                                             *)
(***************************************************************************)
TypeOK ==
    /\ DOMAIN cache \subseteq CacheKeys
    /\ DOMAIN stored = DOMAIN cache
    /\ ret.status \in {"none", "ok", "unsupported", "extraction"}
    /\ (ret.status = "ok") = (ret.result # <<>>)

Returned == ret.status = "ok"

\* The keywords of the job description of the last call.
JobOfCall == IF ret.job_description = <<>> THEN {} ELSE JobKeywords[ret.job_description]

\* A step that is a call of analyze_resume; ret' then describes the call.
CallStep == ticks' = ticks /\ obs' = obs /\ sc_score' = sc_score /\ ret'.status # "none"

\* A result without its analyzed_at.
SansTime(r) == [f \in DOMAIN r \ {"analyzed_at"} |-> r[f]]

\* C1: every returned result, cached or computed, has matched_keywords =
\* keywords \cap J and missing_keywords = J \ keywords, J being the keywords of
\* the job description of that same call.
ScoredAgainstOwnJob ==
    Returned =>
        /\ ret.result[1].matched_keywords = ret.result[1].keywords \cap JobOfCall
        /\ ret.result[1].missing_keywords = JobOfCall \ ret.result[1].keywords

\* C2: every call with job_description = "" that returns a result returns
\* ats_score 0.0 and empty matched_keywords and missing_keywords.
EmptyJobGivesZero ==
    (Returned /\ ret.job_description = <<>>) =>
        /\ ret.result[1].ats_score = 0
        /\ ret.result[1].matched_keywords = {}
        /\ ret.result[1].missing_keywords = {}

\* C3: every call whose file name ends (case-insensitively) in neither .pdf nor
\* .docx fails with the unsupported-format error and returns no result.
UnsupportedAlwaysFails ==
    (ret.status # "none" /\ ~IsPdf(ret.filename) /\ ~IsDocx(ret.filename)) =>
        (ret.status = "unsupported" /\ ret.result = <<>>)

\* C4: two successful calls with the same bytes, the same file name and an
\* empty job description return results equal in every field but analyzed_at.
EmptyJobCallsAgree ==
    (/\ obs # <<>>
     /\ Returned
     /\ ret.job_description = <<>>
     /\ ret.file_content = obs[1].file_content
     /\ ret.filename = obs[1].filename)
        => SansTime(ret.result[1]) = SansTime(obs[1].result)

\* C5: a call on bytes whose cache entry is set and not expired returns exactly
\* the result the storing call returned, runs no step of the pipeline, and
\* leaves the entry and its expiry time as they are.
HitServesStored ==
    [][(CallStep /\ cache_key(ret'.file_content) \in DOMAIN cache) =>
          /\ now < cache[cache_key(ret'.file_content)].exp
          /\ ret'.status = "ok"
          /\ ret'.hit
          /\ ret'.result = <<stored[cache_key(ret'.file_content)]>>
          /\ ret'.ran = {}
          /\ cache' = cache
          /\ stored' = stored]_vars

ServedLaterFromCache ==
    /\ Returned
    /\ ret.hit
    /\ ret.result[1].analyzed_at < now
    /\ ret.job_description # <<>>

\* C6: an entry stored at time t is in the cache exactly while the clock is
\* before t + 3600; the first call on the same bytes after the expiry is not
\* served from the cache, and when it returns a result it has run every step of
\* the pipeline, scored against its own job description, and has set a new
\* entry that expires 3600 later.
LiveUntil(k) == stored[k].analyzed_at + TTL

InRange(score) == 0 <= score /\ score <= 10000

ScorerInRange == \A r \in SmallLists, j \in SmallLists : InRange(calculate_ats_score(r, j))

ScoreWithinBounds ==
    /\ Returned => InRange(ret.result[1].ats_score)
    /\ \A k \in DOMAIN cache : InRange(json_loads(cache[k].value).ats_score)
    /\ ScorerInRange

PartialScoreReturned ==
    /\ Returned
    /\ 0 < ret.result[1].ats_score
    /\ ret.result[1].ats_score < 10000

\* C8: every returned result, computed or cached, has matched_keywords within
\* keywords, missing_keywords disjoint from keywords, and matched_keywords
\* disjoint from missing_keywords.
SetLaws ==
    Returned =>
        /\ ret.result[1].matched_keywords \subseteq ret.result[1].keywords
        /\ ret.result[1].missing_keywords \cap ret.result[1].keywords = {}
        /\ ret.result[1].matched_keywords \cap ret.result[1].missing_keywords = {}

MatchedAndMissingReturned ==
    /\ Returned
    /\ ret.hit
    /\ ret.result[1].matched_keywords # {}
    /\ ret.result[1].missing_keywords # {}

\* C9 as stated: for a duplicate-free non-empty job list within the resume
\* list the score is exactly 100.0, and the score is 100.0 only if no job
\* keyword is missing.
ScoreReturned == sc_score # <<>> /\ NoDup(sc_job)

PerfectOnlyIfNoneMissing ==
    ScoreReturned =>
        /\ (sc_job # <<>> /\ ToSet(sc_job) \subseteq ToSet(sc_resume)) => sc_score[1] = 10000
        /\ sc_score[1] <= 10000
        /\ sc_score[1] = 10000 => ToSet(sc_job) \ ToSet(sc_resume) = {}

\* C9, amended: for a duplicate-free non-empty job list within the resume list
\* the score is exactly 100.0, never more; and the score is 100.0 only if
\* 20000 * |missing| <= |job| (rounding to 2 decimals lifts 99.995 and above
\* to 100.0), so only if nothing is missing when the job list has fewer than
\* 20000 keywords.
PerfectOverlapRounded ==
    ScoreReturned =>
        /\ (sc_job # <<>> /\ ToSet(sc_job) \subseteq ToSet(sc_resume)) => sc_score[1] = 10000
        /\ sc_score[1] <= 10000
        /\ sc_score[1] = 10000 =>
              20000 * Cardinality(ToSet(sc_job) \ ToSet(sc_resume)) <= Len(sc_job)
        /\ (sc_score[1] = 10000 /\ Len(sc_job) < 20000) =>
              ToSet(sc_job) \ ToSet(sc_resume) = {}

PerfectOverlapScored ==
    /\ ScoreReturned
    /\ Len(sc_job) > 1
    /\ ToSet(sc_job) \subseteq ToSet(sc_resume)
    /\ ToSet(sc_job) # ToSet(sc_resume)
    /\ sc_score[1] = 10000

\* C10: for a duplicate-free non-empty job list J and any resume list R the
\* score is min(100, 100 * |R \cap J| / |J|) rounded to 2 decimals, R and J
\* taken as sets: neither order nor repeats in R change it.
SetOverlapScore(R, J) == round2(Min(100 * Cardinality(R \cap J), 100 * Cardinality(J)), Cardinality(J))

ScoreIsSetOverlap ==
    (ScoreReturned /\ sc_job # <<>>) =>
        sc_score[1] = SetOverlapScore(ToSet(sc_resume), ToSet(sc_job))

RepeatedTokenScored ==
    /\ ScoreReturned
    /\ ~NoDup(sc_resume)
    /\ Len(sc_job) = 3
    /\ sc_score[1] = 3333

\* C11: every call with a supported file name, on bytes from which the
\* extractor of that file name gets empty or whitespace-only text, fails with
\* the extraction error and returns no result, having run the extraction and
\* nothing after it.
BlankTextAlwaysFails ==
    (/\ ret.status # "none"
     /\ ret.filename \in Supported
     /\ Extracted[ret.file_content][ret.filename] \notin HasText)
        => (ret.status = "extraction" /\ ret.result = <<>> /\ ret.ran = {"extract"})

\* C12: every call either returns a result with exactly the ten fields or
\* raises; a call that raises returns nothing and leaves the cache, keys,
\* values and expiry times, as it was.
TenFields ==
    {"extracted_text", "keywords", "skills", "experience_years", "education",
     "ats_score", "suggestions", "matched_keywords", "missing_keywords", "analyzed_at"}

AllOrNothing ==
    [][CallStep =>
          \/ /\ ret'.status = "ok"
             /\ Len(ret'.result) = 1
             /\ DOMAIN ret'.result[1] = TenFields
          \/ /\ ret'.status \in {"unsupported", "extraction"}
             /\ ret'.result = <<>>
             /\ "store" \notin ret'.ran
             /\ cache' = cache]_vars

RaisedWithEntriesKept ==
    /\ ret.status = "extraction"
    /\ Cardinality(DOMAIN cache) = 2

\* C13: a call on bytes b reads and writes only the entry under the key made
\* from the hash of b, whatever its file name and job description: it is served
\* from the cache exactly when that key is set, every other key keeps its
\* entry, a computed result is stored under that key, and (the hash being
\* injective on the documents) the text of a returned result is always a text
\* of b itself.
TextsOf(b) == {Extracted[b][f] : f \in Supported}

KeyedByBytesAlone ==
    [][CallStep =>
          LET k == cache_key(ret'.file_content)
          IN  /\ k = <<"resume:analysis:", md5_hexdigest[ret'.file_content]>>
              /\ \A j \in (DOMAIN cache \cup DOMAIN cache') \ {k} :
                    j \in DOMAIN cache /\ j \in DOMAIN cache' /\ cache'[j] = cache[j]
              /\ ret'.hit = (k \in DOMAIN cache)
              /\ ret'.hit => ret'.result = <<json_loads(cache[k].value)>>
              /\ (ret'.status = "ok" /\ ~ret'.hit) =>
                    (k \in DOMAIN cache' /\ cache'[k].value = json_dumps(ret'.result[1]))
              /\ ret'.status = "ok" =>
                    ret'.result[1].extracted_text \in TextsOf(ret'.file_content)]_vars

OtherNameOtherJobServed ==
    /\ Returned
    /\ ret.hit
    /\ ret.filename \notin Supported
    /\ ret.job_description # <<>>
    /\ Cardinality(DOMAIN cache) = 2

\* C14: an entry that is set keeps its value and its expiry time for as long
\* as it has not expired: no step of any call, under any interleaving, writes
\* over a live entry or moves its expiry.
LiveEntriesFrozen ==
    [][\A k \in DOMAIN cache :
          now' < cache[k].exp => (k \in DOMAIN cache' /\ cache'[k] = cache[k])]_vars

\* C15 as stated: concurrent calls with the same arguments, started with
\* nothing cached, all complete, and when the last one completes the returned
\* results are equal in every field but analyzed_at and the cache holds
\* exactly one entry, under the key of the bytes, whose value is one of the
\* returned results.
AllDone == tasks # <<>> /\ \A p \in DOMAIN tasks : tasks[p].pc = "done"

ReturnedTasks == {p \in DOMAIN tasks : tasks[p].status = "ok"}

TheKey == cache_key(tasks[1].file_content)

OneEntryOfAReturnedResult ==
    /\ DOMAIN cache = {TheKey}
    /\ \E p \in ReturnedTasks : cache[TheKey].value = json_dumps(tasks[p].result[1])

AgreedAsStated ==
    /\ \A p, q \in ReturnedTasks :
          SansTime(tasks[p].result[1]) = SansTime(tasks[q].result[1])
    /\ OneEntryOfAReturnedResult

SameAdvice(r1, r2) ==
    /\ Len(r1.suggestions) = Len(r2.suggestions)
    /\ \A i \in 1..Len(r1.suggestions) : r1.suggestions[i][1] = r2.suggestions[i][1]

Alike(r1, r2) ==
    /\ \A f \in TenFields \ {"analyzed_at", "suggestions"} : r1[f] = r2[f]
    /\ SameAdvice(r1, r2)

AgreedOrAllRaised ==
    \/ /\ ReturnedTasks = DOMAIN tasks
       /\ \A p, q \in ReturnedTasks : Alike(tasks[p].result[1], tasks[q].result[1])
       /\ OneEntryOfAReturnedResult
    \/ /\ \E status \in {"unsupported", "extraction"} :
             \A p \in DOMAIN tasks : tasks[p].status = status /\ tasks[p].result = <<>>
       /\ cache = EmptyMap

UnsupportedUploadGets400 ==
    (/\ response.endpoint = "POST /api/v1/resume/analyze"
     /\ ~IsPdf(response.request[1].filename)
     /\ ~IsDocx(response.request[1].filename))
        => /\ response.status_code = 400
           /\ response.detail = "Only PDF and DOCX files are supported"

\* C17: both applications answer a POST /api/v1/job/match request with
\* non-empty resume_text and job_description with a JobMatchResponse whose
\* match_percentage is the score of the resume text against the job
\* description, whose gaps are the job keywords the resume lacks, and whose
\* pass_probability is min(match_percentage + 20, 100).
JobMatchAnswered ==
    (/\ response.endpoint = "POST /api/v1/job/match"
     /\ response.request[1].resume_text # <<>>
     /\ response.request[1].job_description # <<>>)
        => /\ response.status_code = 200
           /\ LET keywords == Features[response.request[1].resume_text].keywords
                  job_keywords == JobKeywords[response.request[1].job_description]
                  body == response.body[1]
              IN  /\ body.match_percentage =
                        calculate_ats_score(AsList(keywords), AsList(job_keywords))
                  /\ ToSet(body.gaps) = job_keywords \ keywords
                  /\ body.pass_probability = Min(body.match_percentage + 2000, 10000)

\* C18: extract_text_from_pdf runs pdfplumber first and returns its text when
\* it does not fail; when it fails (opening or any page raises) PyPDF2 is run,
\* once, and its text returned, or "" when PyPDF2 fails too. Neither
\* extract_text_from_pdf nor extract_text_from_docx ever raises, and no parser
\* is run twice in a call.
PdfplumberFails(doc) == ~doc.opens \/ \E i \in 1..Len(doc.pages) : doc.pages[i] = <<"raise">>

PyPDF2Fails(doc) == ~doc.opens \/ \E i \in 1..Len(doc.pages) : doc.pages[i][1] \in {"raise", "None"}

FallbackOnceNeverRaises ==
    /\ (fn.name = "extract_text_from_pdf" /\ fn.ret # <<>>) =>
          LET A == fn.args[1]
              B == fn.args[2]
              out == fn.ret[1]
          IN  /\ out.kind = "return"
              /\ NoDup(out.attempts)
              /\ ~PdfplumberFails(A) =>
                    (out.attempts = <<"pdfplumber">> /\ out.value = try_pdfplumber(A)[2])
              /\ PdfplumberFails(A) =>
                    /\ out.attempts = <<"pdfplumber", "PyPDF2">>
                    /\ out.value = IF PyPDF2Fails(B) THEN <<>> ELSE try_PyPDF2(B)[2]
    /\ (fn.name = "extract_text_from_docx" /\ fn.ret # <<>>) =>
          LET out == fn.ret[1]
          IN  /\ out.kind = "return"
              /\ out.attempts = <<"python-docx">>
              /\ PyPDF2Fails(fn.args[1]) => out.value = <<>>

FellBackToPyPDF2 ==
    /\ fn.name = "extract_text_from_pdf"
    /\ fn.ret # <<>>
    /\ PdfplumberFails(fn.args[1])
    /\ fn.args[1].opens
    /\ fn.ret[1].attempts = <<"pdfplumber", "PyPDF2">>
    /\ fn.ret[1].value = <<"a", "a">>

\* C19 as stated: whatever the text and the lemmatizer, every token returned
\* by extract_keywords has at least 3 characters and is no stopword, and no
\* token is returned twice.
KeywordsReturned == fn.name = "extract_keywords" /\ fn.ret # <<>>

KeywordsLongAndNoStopwords ==
    KeywordsReturned =>
        /\ \A i \in 1..Len(fn.ret[1]) :
              Len(fn.ret[1][i]) >= 3 /\ fn.ret[1][i] \notin stop_words
        /\ NoDup(fn.ret[1])

\* C19, amended: whatever the text and the lemmatizer, the tokens returned are
\* exactly the lemmas of the tokens of the cleaned text that have at least 3
\* characters and are no stopwords, and no token is returned twice; a lemma
\* itself may be shorter than 3 characters or a stopword.
KeywordSources(text) ==
    LET tokens == word_tokenize(clean_text(text))
    IN  {tokens[i] : i \in {j \in 1..Len(tokens) :
                               Len(tokens[j]) >= 3 /\ tokens[j] \notin stop_words}}

KeywordsAreLemmasOfKeptTokens ==
    KeywordsReturned =>
        /\ ToSet(fn.ret[1]) =
              {lemmatize_by(fn.args[2], token) : token \in KeywordSources(fn.args[1])}
        /\ NoDup(fn.ret[1])

ShortAndStopwordLemmasReturned ==
    /\ KeywordsReturned
    /\ fn.args[2] = [token \in { <<"i", "o", "s">>, <<"d", "o", "w", "n", "s">> } |-> WordNetBase[token]]
    /\ ToSet(fn.ret[1]) = { <<"i", "o">>, <<"d", "o", "w", "n">> }

\* C20: the messages generate_suggestions returns are those of the four
\* rules, in the order missing keywords, more keywords, soft skills,
\* technical skills, each there exactly when its own condition holds
\* (missing non-empty; fewer than 20 resume tokens; no resume token in
\* soft_skills; no resume token in technical_skills): between 0 and 4 entries,
\* none suppressed or moved by another. The first lists missing[:5].
RuleHolds ==
    LET resume == ToSet(fn.args[1])
    IN  <<fn.args[3] # <<>>,
          Cardinality(resume) < 20,
          resume \cap ToSet(soft_skills) = {},
          resume \cap ToSet(technical_skills) = {}>>

RuleMessage ==
    <<"Add these keywords to your resume",
      "Consider adding more specific skills and keywords to your resume",
      "Include soft skills like leadership, communication, and teamwork",
      "Add technical skills relevant to your target position">>

RECURSIVE Fired(_)
Fired(k) ==
    IF k = 0 THEN <<>>
    ELSE Fired(k - 1) \o (IF RuleHolds[k] THEN <<RuleMessage[k]>> ELSE <<>>)

AllApplicableRulesInOrder ==
    (fn.name = "generate_suggestions" /\ fn.ret # <<>>) =>
        LET suggestions == fn.ret[1]
        IN  /\ [i \in 1..Len(suggestions) |-> suggestions[i][1]] = Fired(4)
            /\ Len(suggestions) \in 0..4
            /\ RuleHolds[1] => suggestions[1][2] = Prefix(fn.args[3], 5)

FirstAndThirdRuleFired ==
    /\ fn.name = "generate_suggestions"
    /\ Len(fn.args[1]) = 21
    /\ Len(fn.args[3]) = 6
    /\ Len(fn.ret) = 1
    /\ Len(fn.ret[1]) = 2
    /\ fn.ret[1][2][1] = RuleMessage[3]

\* C21: a returned result with missing keywords has exactly one
\* missing-keywords suggestion, the first of its suggestions, and it lists the
\* first min(5, |missing|) missing keywords in the order in which they are
\* first found in the job description.
RECURSIVE FirstOccurrences(_, _)
FirstOccurrences(s, seen) ==
    IF s = <<>> THEN <<>>
    ELSE IF Head(s) \in seen THEN FirstOccurrences(Tail(s), seen)
    ELSE <<Head(s)>> \o FirstOccurrences(Tail(s), seen \cup {Head(s)})

DiscoveryOrder ==
    [jd \in AllJobDescriptions |-> FirstOccurrences(lemmatized_tokens(jd, WordNetBase), {})]

InDiscoveryOrder(jd, missing) ==
    LET Missing(kw) == kw \in missing
    IN  SelectSeq(DiscoveryOrder[jd], Missing)

MissingSuggestionInDiscoveryOrder ==
    \A p \in ReturnedTasks :
        LET r == tasks[p].result[1]
            listing == {i \in 1..Len(r.suggestions) :
                           r.suggestions[i][1] = "Add these keywords to your resume"}
        IN  r.missing_keywords # {} =>
               /\ listing = {1}
               /\ r.suggestions[1][2] =
                     Prefix(InDiscoveryOrder(tasks[p].job_description, r.missing_keywords),
                            MaxListedMissing)

\* C22: extract_experience_years returns the number of the first pattern, in
\* the order of the list, that matches anywhere in the text, and of that
\* pattern the leftmost match, even when a later pattern matches earlier in
\* the text; it returns None exactly when no pattern matches, and the number
\* is that of one mention, never a combination of several.
YearsReturned == fn.name = "extract_experience_years" /\ fn.ret # <<>>

\* the mentions of the text that are written for pattern k, in text order
MentionsOf(k) ==
    LET ForPattern(m) == m.pattern = k
    IN  SelectSeq(fn.args[2], ForPattern)

FirstPatternWins ==
    YearsReturned =>
        LET years == fn.ret[1]
        IN  /\ MentionsOf(1) # <<>> => years = Head(MentionsOf(1)).years
            /\ (MentionsOf(1) = <<>> /\ MentionsOf(2) # <<>>) =>
                   years = Head(MentionsOf(2)).years
            /\ (MentionsOf(1) = <<>> /\ MentionsOf(2) = <<>> /\ MentionsOf(3) # <<>>) =>
                   years = Head(MentionsOf(3)).years
            /\ (years = NoYears) <=> (\A k \in 1..Len(patterns) : MentionsOf(k) = <<>>)

LaterPatternAtEarlierPosition ==
    /\ YearsReturned
    /\ Len(fn.args[2]) = 3
    /\ fn.args[2][1].pattern = 3
    /\ fn.args[2][2].pattern = 2
    /\ fn.args[2][3].pattern = 1
    /\ fn.ret[1] = fn.args[2][3].years

\* C23: extract_skills returns, without repeats, exactly the technical and
\* soft skills that are substrings of the lower-cased text; a word of the
\* certifications or education lists alone is never returned.
SkillsReturned == fn.name = "extract_skills" /\ fn.ret # <<>>

WrittenSkills == UNION {fn.args[2][i].skills : i \in 1..Len(fn.args[2])}

OnlyWrittenTechnicalAndSoftSkills ==
    SkillsReturned =>
        LET skills == fn.ret[1]
            text_lower == lower(fn.args[1])
        IN  /\ NoDup(skills)
            /\ ToSet(skills) = WrittenSkills
            /\ \A e \in ToSet(technical_skills) \cup ToSet(soft_skills) :
                  e \in ToSet(skills) <=> Contains(text_lower, e)
            /\ \A e \in (ToSet(certifications) \cup ToSet(education))
                          \ (ToSet(technical_skills) \cup ToSet(soft_skills)) :
                  e \notin ToSet(skills)

CertificationWrittenSkillInsideReturned ==
    /\ SkillsReturned
    /\ Contains(lower(fn.args[1]), <<"s", "c", "r", "u", "m", " ", "m", "a", "s", "t", "e", "r">>)
    /\ Contains(lower(fn.args[1]), <<"j", "a", "v", "a", "s", "c", "r", "i", "p", "t">>)
    /\ ToSet(fn.ret[1]) = { <<"s", "c", "r", "u", "m">>, <<"j", "a", "v", "a">>, <<"j", "a", "v", "a", "s", "c", "r", "i", "p", "t">>, <<"r">> }

\* C24: a call that computes its result for a job description that is not
\* empty but has no keyword (stopwords and short tokens only) runs the
\* scoring and returns ats_score 0.0 with no matched and no missing keyword.
NoKeywordJob(jd) == jd # <<>> /\ JobKeywords[jd] = {}

EmptyJobTokensScoreZero ==
    (/\ Returned
     /\ ~ret.hit
     /\ NoKeywordJob(ret.job_description))
        => /\ "score" \in ret.ran
           /\ ret.result[1].ats_score = 0
           /\ ret.result[1].matched_keywords = {}
           /\ ret.result[1].missing_keywords = {}

ComputedForStopwordJob ==
    /\ Returned
    /\ ~ret.hit
    /\ ret.job_description = <<"t", "h", "e", " ", "o", "f">>
    /\ ret.result[1].keywords # {}
    /\ ret.result[1].ats_score = 0

\* C25: backend/main.py answers an upload whose analysis gives a result
\* (supported file name, document with text) with the full analysis response
\* whether or not the insert into the document store succeeds, the file_id
\* being the inserted id or "temp_<uuid>"; only a failure of the file storage
\* is answered otherwise.
AnalysisGivesResult(request) ==
    /\ request.filename \in Supported
    /\ Extracted[request.file_content][request.filename] \in HasText

PdfReturned == fn.name = "extract_text_from_pdf" /\ fn.ret # <<>>

FallbackOnlyAfterRaise ==
    PdfReturned =>
        LET A == fn.args[1]
            out == fn.ret[1]
        IN  /\ ("PyPDF2" \in ToSet(out.attempts)) <=> PdfplumberFails(A)
            /\ (~PdfplumberFails(A) /\ strip(try_pdfplumber(A)[2]) = <<>>) =>
                  /\ out.attempts = <<"pdfplumber">>
                  /\ out.kind = "return"
                  /\ strip(out.value) = <<>>

\* in analyze_resume: a PDF in which pdfplumber finds blank text fails with
\* the extraction error, although PyPDF2 would have found a text
BlankFirstStrategyFailsTheCall ==
    (/\ ret.status # "none"
     /\ ~ret.hit
     /\ IsPdf(ret.filename)
     /\ pdfplumber_text[ret.file_content][1]
     /\ strip(pdfplumber_text[ret.file_content][2]) = <<>>)
        => ret.status = "extraction"

EmptyTextReturnedWithoutPyPDF2 ==
    /\ PdfReturned
    /\ fn.args[1] = [opens |-> TRUE, pages |-> << <<"None">>, <<"text", <<>>>> >>]
    /\ try_PyPDF2(fn.args[2]) = <<TRUE, <<"a", "a">>>>
    /\ fn.ret[1] = Outcome("return", <<>>, <<"pdfplumber">>)

\* C28: with concurrent calls on the same bytes and different job
\* descriptions, under every interleaving: a call that found no entry holds
\* the result scored against its own job description; every value in the
\* cache is the whole result of one call that computed it; a write puts the
\* writer's result under the key, and nothing else changes an entry, so the
\* entry left is the one written last.
Computed(p) == ~tasks[p].hit /\ tasks[p].result # <<>>

HoldsResultOfOwnJob(p) ==
    LET t == tasks[p]
        r == t.result[1]
        keywords == Features[Extracted[t.file_content][t.filename]].keywords
        job_keywords == JobKeywords[t.job_description]
    IN  /\ r.ats_score = calculate_ats_score(AsList(keywords), AsList(job_keywords))
        /\ r.matched_keywords = keywords \cap job_keywords
        /\ r.missing_keywords = job_keywords \ keywords
        /\ r.missing_keywords # {} => ToSet(r.suggestions[1][2]) = r.missing_keywords

WholeResultOfOneRun(value) ==
    /\ DOMAIN json_loads(value) = TenFields
    /\ \E p \in DOMAIN tasks : Computed(p) /\ tasks[p].result = <<json_loads(value)>>

ComputedHoldOwnResults == \A p \in DOMAIN tasks : Computed(p) => HoldsResultOfOwnJob(p)

EntriesAreWholeResults == \A k \in DOMAIN cache : WholeResultOfOneRun(cache[k].value)

Wrote(p) == tasks[p].pc = "setex" /\ tasks'[p].pc = "done"

OwnResultsWholeEntriesLastWriteStays ==
    [][/\ ComputedHoldOwnResults'
       /\ EntriesAreWholeResults'
       /\ \A p \in DOMAIN tasks :
             Wrote(p) => cache' = (TheKey :> [value |-> json_dumps(tasks[p].result[1]),
                                              exp |-> now + TTL])
       /\ (\A p \in DOMAIN tasks : ~Wrote(p)) =>
             \A k \in DOMAIN cache' : k \in DOMAIN cache /\ cache'[k] = cache[k]]_vars

TwoJobsRacedLastWriteLeft ==
    /\ AllDone
    /\ \A p \in DOMAIN tasks : Computed(p) /\ tasks[p].status = "ok"
    /\ tasks[1].replaced # <<>>
    /\ tasks[1].result[1].ats_score # tasks[2].result[1].ats_score
    /\ TheKey \in DOMAIN cache
    /\ cache[TheKey].value = json_dumps(tasks[1].result[1])

\* C29: backend/main.py writes a file to the storage only in a request to the
\* analyze endpoint that has passed the analyzer check and the file name
\* check; a request rejected by either check leaves the storage as it was,
\* and no step removes a stored file, whatever becomes of the analysis.
StoredBy(app, stored_files) ==
    LET Mine(f) == f.app = app
    IN  SelectSeq(stored_files, Mine)

RejectedByACheck(answer) ==
    /\ answer.app = "backend/main.py"
    /\ answer.endpoint = "POST /api/v1/resume/analyze"
    /\ answer.detail \in {"Resume analyzer not initialized",
                          "Only PDF and DOCX files are supported"}

UploadAnswered == response.app = "main.py" /\ response.endpoint = "POST /api/v1/resume/upload"

NoTextInUpload(request) ==
    /\ \E i \in 1..Len(allowed_extensions) :
          endswith(lower(request.filename), allowed_extensions[i])
    /\ file_size[request.file_content] <= MaxFileSize
    /\ CanOpen(request.filename)
    /\ IF endswith(lower(request.filename), <<".", "p", "d", "f">>)
       THEN ~pdfplumber_text[request.file_content][1] /\ ~PyPDF2_text[request.file_content][1]
       ELSE ~docx_text[request.file_content][1]

NoTextUploadGets400 ==
    (UploadAnswered /\ NoTextInUpload(response.request[1]))
        => /\ response.status_code = 400
           /\ response.detail = "Could not extract text from the uploaded file"

\* C30: in main.py an upload answered 200 adds exactly one entry to
\* resume_analyses, under the file_id it returns, and changes no other; an
\* upload answered otherwise adds no entry and leaves no file in uploads/;
\* analyze changes neither, and answers 404 exactly for a file_id that has no
\* entry.  So the entries are those of the uploads that succeeded, and the
\* files in uploads/ are theirs.
AnalyzeAnswered == response.app = "main.py" /\ response.endpoint = "POST /api/v1/resume/analyze"

SavedIds == {files[i].filename[2] : i \in 1..Len(files)}

EntriesOnlyBySuccessfulUploads ==
    [][/\ (UploadAnswered' /\ response'.status_code = 200) =>
             LET file_id == response'.body[1].file_id
             IN  /\ file_id \notin DOMAIN resume_analyses
                 /\ DOMAIN resume_analyses' = DOMAIN resume_analyses \cup {file_id}
                 /\ \A k \in DOMAIN resume_analyses : resume_analyses'[k] = resume_analyses[k]
                 /\ Len(files') = Len(files) + 1
       /\ (UploadAnswered' /\ response'.status_code # 200) =>
             /\ response'.status_code \in {400, 500}
             /\ resume_analyses' = resume_analyses
             /\ files' = files
       /\ AnalyzeAnswered' =>
             /\ resume_analyses' = resume_analyses
             /\ files' = files
             /\ (response'.status_code = 404) <=>
                   (response'.request[1].file_id \notin DOMAIN resume_analyses)
             /\ response'.status_code \in {200, 404}
       /\ SavedIds' = DOMAIN resume_analyses'
       /\ Len(files') = Cardinality(SavedIds')]_vars

FailedUploadLeftNothing ==
    /\ UploadAnswered
    /\ response.detail \in ErrorProcessingNoText
    /\ Cardinality(DOMAIN resume_analyses) = 1
    /\ Len(files) = 1
    /\ files[1].content # response.request[1].file_content
====
